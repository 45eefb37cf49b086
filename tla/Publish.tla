------------------------------ MODULE Publish ------------------------------
(***************************************************************************)
(* Publishing a site: the programs huprep and up2ds, and receiveUpload of  *)
(* package net/http/upload, which unpacks what they send into the file     *)
(* system of a target.  Hugo, curl and the network are external.  Nobody   *)
(* tells a publisher how far the target came: every answer is a success,   *)
(* and curl fails only when the connection does.                           *)
(***************************************************************************)
EXTENDS Naturals, Sequences, FiniteSets

CONSTANTS Targets,
          Entries,   \* the names of a site, in the order of the zip file
          Dirs,      \* those of directories
          DirOf,     \* the directory a name is in, or the root
          SiteOf,    \* the names in every version of the site
          Skipped,   \* those with an extension that huprep does not know
          MaxJobs    \* bound: uploads that reach the targets

VARIABLES
    version,    \* the site's version on the publisher's disk
    statified,  \* what Hugo left in its output directory: name to version, or Absent
    publisher,  \* how far huprep is
    store,      \* every target's files
    jobs,       \* receiveUpload on every target: what is left of each upload
    spoilt      \* targets where an upload ended early, or two overlapped

publishVars == <<version, statified, publisher, store, jobs, spoilt>>

Absent == 0
Names == {Entries[i] : i \in DOMAIN Entries}
Resting == [pc |-> "resting", zip |-> [n \in Names |-> Absent], left |-> {}, target |-> "none", job |-> 0]

PublishInit ==
    /\ version = 0 /\ statified = [n \in Names |-> Absent]
    /\ publisher = Resting
    /\ store = [t \in Targets |-> [n \in Names |-> Absent]]
    /\ jobs = [t \in Targets |-> <<>>]
    /\ spoilt = {}

Ended == [pc |-> "ended", zip |-> Resting.zip, left |-> {}]
Running(t) == {i \in DOMAIN jobs[t] : jobs[t][i].pc = "unpacking"}

(***************************************************************************)
(* receiveUpload                                                           *)
(***************************************************************************)
\* A request reaches a target, and the entries of its archive, or its one file.
Arrives(t, zip) ==
    /\ Cardinality(UNION {{u} \X DOMAIN jobs[u] : u \in Targets}) < MaxJobs
    /\ jobs' = [jobs EXCEPT ![t] = Append(@, [pc |-> "unpacking", zip |-> zip,
                                              left |-> {p \in DOMAIN Entries : zip[Entries[p]] # Absent}])]

\* MkdirAll, or WriteFile, which makes the directory as well.
Saved(t, n, v) ==
    [m \in Names |-> IF m = n \/ (m = DirOf[n] /\ store[t][m] = Absent) THEN v ELSE store[t][m]]

\* In the order of the archive.
Unpack(t, i) ==
    /\ i \in Running(t)
    /\ \E p \in jobs[t][i].left :
        /\ \A q \in jobs[t][i].left : p <= q
        /\ store' = [store EXCEPT ![t] = Saved(t, Entries[p], jobs[t][i].zip[Entries[p]])]
        /\ jobs' = [jobs EXCEPT ![t][i].left = @ \ {p}]
    /\ UNCHANGED <<version, statified, publisher, spoilt>>

\* Memcache is flushed, which has no part in the files; or an error, which
\* leaves the rest of the archive, and the platform may stop a request as well.
EndUpload(t, i) ==
    /\ i \in Running(t)
    /\ jobs' = [jobs EXCEPT ![t][i] = Ended]
    /\ spoilt' = IF jobs[t][i].left = {} THEN spoilt ELSE spoilt \cup {t}
    /\ UNCHANGED <<version, statified, publisher, store>>

(***************************************************************************)
(* huprep                                                                  *)
(***************************************************************************)
\* rm gets "./cnt_statified/*" without a shell to expand it, and removes nothing.
Statified(v) == [n \in Names |-> IF n \in SiteOf[v] THEN v ELSE statified[n]]

\* An error of Walk is ignored, and what it had not come to is not in the archive.
prepareConfigToml ==
    /\ publisher.pc \in {"resting", "completed"} /\ version < Len(SiteOf)
    /\ version' = version + 1 /\ statified' = Statified(version + 1)
    /\ \E walked \in 0 .. Len(Entries) :
        publisher' = [pc |-> "next", left |-> Targets, target |-> "none", job |-> 0,
                      zip |-> [n \in Names |-> IF n \in Skipped \/ \A i \in 1 .. walked : Entries[i] # n
                                               THEN Absent ELSE statified'[n]]]
    /\ UNCHANGED <<store, jobs, spoilt>>

NextTarget ==
    /\ publisher.pc = "next"
    /\ \/ publisher.left = {} /\ publisher' = [publisher EXCEPT !.pc = "completed"]
          /\ UNCHANGED <<jobs, spoilt>>
       \/ \E t \in publisher.left :
            /\ publisher' = [publisher EXCEPT !.pc = "curl", !.left = @ \ {t}, !.target = t, !.job = Len(jobs[t]) + 1]
            /\ Arrives(t, publisher.zip)
            /\ spoilt' = IF Running(t) = {} THEN spoilt \ {t} ELSE spoilt \cup {t}
    /\ UNCHANGED <<version, statified, store>>

\* The answer to the upload; the resets follow.
Answered ==
    /\ publisher.pc = "curl"
    /\ jobs[publisher.target][publisher.job].pc = "ended"
    /\ publisher' = [publisher EXCEPT !.pc = "resets"]
    /\ UNCHANGED <<version, statified, store, jobs, spoilt>>

\* Of the file system in memory, for which this repository has no handler, and
\* of the templates, for which see Template.
Resets ==
    /\ publisher.pc = "resets" /\ publisher' = [publisher EXCEPT !.pc = "next"]
    /\ UNCHANGED <<version, statified, store, jobs, spoilt>>

\* Mutant: the next target gets its turn.
GiveUp_continue == [publisher EXCEPT !.pc = "next"]

\* When curl fails, whatever is left is not done.
GiveUp == Resting

CurlFails ==
    /\ publisher.pc \in {"curl", "resets"}
    /\ publisher' = GiveUp
    /\ UNCHANGED <<version, statified, store, jobs, spoilt>>

(***************************************************************************)
(* up2ds sends a single file, or an archive, to one target.                *)
(***************************************************************************)
uploadFile ==
    /\ version > 0
    /\ \E t \in Targets, sent \in {SiteOf[version]} \cup {{n} : n \in SiteOf[version] \ Dirs} :
        /\ Arrives(t, [n \in Names |-> IF n \in sent THEN version ELSE Absent])
        /\ spoilt' = IF Running(t) = {} THEN spoilt ELSE spoilt \cup {t}
    /\ UNCHANGED <<version, statified, publisher, store>>

PublishNext ==
    \/ prepareConfigToml \/ NextTarget \/ Answered \/ Resets \/ CurlFails \/ uploadFile
    \/ \E t \in Targets : \E i \in DOMAIN jobs[t] : Unpack(t, i) \/ EndUpload(t, i)
=============================================================================
