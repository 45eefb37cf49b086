---------------------------- MODULE InstanceInfo ----------------------------
(***************************************************************************)
(* The record of package appengine/instance_mgt about the running          *)
(* instance.  It is one variable of the program: requests that find it too *)
(* old fill it, field by field and without a lock, while others read it.   *)
(* The calls that yield the fields are external and may fail.              *)
(***************************************************************************)
EXTENDS Naturals

CONSTANTS Askers,       \* requests that want the record
          MaxInstances  \* the platform may report none, and up to so many

VARIABLES ii,     \* the record
          age,    \* "never", "just now" (200 ms), "recent" (an hour), "old"
          asker   \* how far every request is

infoVars == <<ii, age, asker>>

Empty == [InstanceID |-> "", NumInstances |-> 0, Hostname |-> "", HostnameInst0 |-> ""]

InfoInit ==
    ii = Empty /\ age = "never" /\ asker = [r \in Askers |-> "new"]

At(r, here, there) == asker[r] = here /\ asker' = [asker EXCEPT ![r] = there]

Tick ==
    /\ age \in {"just now", "recent"}
    /\ age' = IF age = "just now" THEN "recent" ELSE "old"
    /\ UNCHANGED <<ii, asker>>

UpToDate == age = "just now" \/ (age = "recent" /\ ii.Hostname # "")

GetByContext(r) ==
    /\ At(r, "new", IF UpToDate THEN "has" ELSE "version")
    /\ UNCHANGED <<ii, age>>

\* The panic for a version without a dot never strikes: App Engine adds the suffix.
Version(r) ==
    /\ At(r, "version", "instances")
    /\ ii' = [ii EXCEPT !.InstanceID = "id"]
    /\ UNCHANGED age

\* The call is repeated with the major version; both may fail, which yields none.
NumInstances(r) ==
    /\ At(r, "instances", "one")
    /\ \E n \in 0 .. MaxInstances : ii' = [ii EXCEPT !.NumInstances = n]
    /\ UNCHANGED age

\* Mutant: what the platform says is taken as it is.
Assumed_asReported(n) == n

Assumed(n) == IF n = 0 THEN 1 ELSE n

AtLeastOne(r) ==
    /\ At(r, "one", "host")
    /\ ii' = [ii EXCEPT !.NumInstances = Assumed(@)]
    /\ UNCHANGED age

Hostname(r) ==
    /\ At(r, "host", "others")
    /\ \E name \in {"host", ""} : ii' = [ii EXCEPT !.Hostname = name]
    /\ UNCHANGED age

\* On the development server these fields stay as they are.
OtherHostnames(r) ==
    /\ At(r, "others", "date")
    /\ \E name \in {"host 0", "", ii.HostnameInst0} : ii' = [ii EXCEPT !.HostnameInst0 = name]
    /\ UNCHANGED age

LastUpdated(r) == At(r, "date", "has") /\ age' = "just now" /\ UNCHANGED ii

\* The caller reads the record, as often as it likes: multiCastInstanceCacheChange
\* looks at NumInstances before each of its calls, and at the names in it.
Use(r) == At(r, "has", "new") /\ UNCHANGED <<ii, age>>

InfoNext ==
    \/ Tick
    \/ \E r \in Askers : \/ GetByContext(r) \/ Version(r) \/ NumInstances(r) \/ AtLeastOne(r)
                         \/ Hostname(r) \/ OtherHostnames(r) \/ LastUpdated(r) \/ Use(r)

InfoSpec == InfoInit /\ [][InfoNext]_infoVars

(***************************************************************************)
(* A caller that was given the record finds its instance identified, and   *)
(* at least one instance counted, except while another caller is between   *)
(* the call for their number and its correction.                           *)
(***************************************************************************)
InfoUsable ==
    \A r \in Askers : asker[r] = "has" =>
        ii.InstanceID # "" /\ (ii.NumInstances = 0 => \E q \in Askers : asker[q] = "one")
=============================================================================
