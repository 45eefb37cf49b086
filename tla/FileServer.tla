----------------------------- MODULE FileServer -----------------------------
(***************************************************************************)
(* FsiFileServer, through which ServeDsFsFile shows the files that Publish *)
(* brings to a target, and GetDirContents, which reads its listings.  A    *)
(* request is a series of calls of the file system, and uploads go on      *)
(* between them.  Nothing removes a file; the names in a directory come    *)
(* from an index that lags behind.  The file that a request has opened is  *)
(* closed at its end, and dsfs closes a file by saving it.                 *)
(***************************************************************************)
EXTENDS Publish

CONSTANTS Visitors, IndexOf,  \* index.html of every directory
          Snappy              \* compressed files
VARIABLE visitor

ASSUME SiteAssumption == IndexOf \in [Dirs -> Names]

serverVars == <<publishVars, visitor>>

NoVisit == [pc |-> "idle", target |-> "none", name |-> "none", hadIndex |-> FALSE, failed |-> FALSE,
            held |-> Absent,  \* the version of the file that is open
            saved |-> FALSE,  \* its Close has put it back
            answer |-> "none", parsed |-> "none"]

ServerInit == PublishInit /\ visitor = [v \in Visitors |-> NoVisit]

Asked(v) == visitor[v].name
Stored(v, n) == store[visitor[v].target][n]
There(v, n) == Stored(v, n) # Absent

Step(v, r) == visitor' = [visitor EXCEPT ![v] = r]

\* What GetDirContents makes of an answer: only a listing can be parsed.
GetDirContents(answer) == IF answer = "json" THEN "names" ELSE "error"

Reply(v, answer) ==
    Step(v, [visitor[v] EXCEPT !.pc = IF @ = "read" THEN "closing" ELSE "answered",
                               !.answer = answer, !.parsed = GetDirContents(answer)])

\* ServeDsFsFile takes the mount point from the path.
Visit(v) ==
    /\ visitor[v].pc = "idle"
    /\ \E t \in Targets, n \in Names :
        Step(v, [NoVisit EXCEPT !.pc = "open", !.target = t, !.name = n,
                                !.hadIndex = n \in Dirs /\ store[t][IndexOf[n]] # Absent])

\* Without the file, or with an error, the message log is the answer.  A file
\* has its content from here on; to close a directory does nothing.
Open(v) ==
    /\ visitor[v].pc = "open"
    /\ \/ Reply(v, "log")
       \/ There(v, Asked(v)) /\ Asked(v) \in Dirs /\ Step(v, [visitor[v] EXCEPT !.pc = "index"])
       \/ There(v, Asked(v)) /\ Asked(v) \notin Dirs
          /\ Step(v, [visitor[v] EXCEPT !.pc = "read", !.held = Stored(v, Asked(v))])

Index(v) == IndexOf[Asked(v)]

\* Any error in opening the index is taken for its absence.
OpenIndex(v) ==
    /\ visitor[v].pc = "index"
    /\ \/ There(v, Index(v))
          /\ Step(v, [visitor[v] EXCEPT !.pc = "read", !.name = Index(v), !.held = Stored(v, Index(v))])
       \/ Step(v, [visitor[v] EXCEPT !.pc = "list", !.failed = There(v, Index(v))])

\* dirListJson or dirListHtml: of any of the names that the index has by now.
List(v) ==
    /\ visitor[v].pc = "list"
    /\ \E format \in {"json", "html"} : Reply(v, format)

\* A file that cannot be decoded is sent as it is; Stat or reading may fail.
Read(v) ==
    /\ visitor[v].pc = "read"
    /\ \/ \E content \in {"file"} \cup (IF Asked(v) \in Snappy THEN {"decoded"} ELSE {}) : Reply(v, content)
       \/ Reply(v, "log")

\* The deferred Close saves what Open has read, which nobody wrote to, over
\* whatever is there by now; or it fails, which nobody looks at.
Close(v) ==
    /\ visitor[v].pc = "closing"
    /\ \E saved \in BOOLEAN :
        /\ Step(v, [visitor[v] EXCEPT !.pc = "answered", !.saved = saved])
        /\ store' = IF saved THEN [store EXCEPT ![visitor[v].target][Asked(v)] = visitor[v].held] ELSE store

Serve == \E v \in Visitors : Visit(v) \/ Open(v) \/ OpenIndex(v) \/ List(v) \/ Read(v)

ServerNext ==
    \/ PublishNext /\ UNCHANGED visitor
    \/ Serve /\ UNCHANGED publishVars
    \/ (\E v \in Visitors : Close(v)) /\ UNCHANGED <<version, statified, publisher, jobs, spoilt>>

ServerSpec == ServerInit /\ [][ServerNext]_serverVars

\* What is there was put back by a visitor who had opened it.
PutBack(t, n) ==
    \E v \in Visitors : visitor[v].saved /\ visitor[v].target = t /\ Asked(v) = n /\ visitor[v].held = store[t][n]

(***************************************************************************)
(* When the publisher reports that it is through, every target has all of  *)
(* the archive, unless an upload to it was cut short on the server or came *)
(* while another was being unpacked, and but for the files that a visitor  *)
(* who had opened them earlier has put back since; and a visitor gets the  *)
(* listing of a directory that had an index file when he came only if      *)
(* opening it failed.                                                      *)
(***************************************************************************)
SiteAsPublished ==
    /\ publisher.pc = "completed" =>
          \A t \in Targets \ spoilt : \A n \in Names :
              publisher.zip[n] # Absent => store[t][n] = publisher.zip[n] \/ PutBack(t, n)
    /\ \A v \in Visitors : visitor[v].answer \in {"json", "html"} /\ visitor[v].hadIndex => visitor[v].failed
=============================================================================
