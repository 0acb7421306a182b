----------------------------- MODULE WorkQueue -----------------------------
(***************************************************************************)
(* What the durable queue promises those who give it work: a row it has    *)
(* accepted is for one content and for good; it ends once; it ends done    *)
(* only if an execution has answered its content; and a content that is    *)
(* accepted for deduplicating callers is accepted once, until it fails or  *)
(* is forgotten.  How often work is leased, who runs it, where, and what   *)
(* is lost on the way, a caller does not see.                              *)
(***************************************************************************)
CONSTANTS Id, Task, NoTask

VARIABLES
  asked,      \* the content of a row
  status,     \* none (not accepted), open, how it ended, or gone (forgotten)
  sole,       \* the rows that deduplicating callers were given
  answered    \* the contents some execution has answered

promiseVars == <<asked, status, sole, answered>>

Ended == {"done", "failed", "retired"}
Status == {"none", "open", "gone"} \cup Ended

Init ==
  /\ asked = [i \in Id |-> NoTask]
  /\ status = [i \in Id |-> "none"]
  /\ sole = {}
  /\ answered = {}

(* Nobody has been given this content, but for one that failed.            *)
Unheard(t) == \A i \in sole : asked[i] = t => status[i] = "failed"

Accept(i, t) ==
  /\ status[i] = "none"
  /\ asked' = [asked EXCEPT ![i] = t]
  /\ status' = [status EXCEPT ![i] = "open"]
  /\ sole' = sole \/ (Unheard(t) /\ sole' = sole \cup {i})
  /\ UNCHANGED answered

Ends(i) == /\ status[i] = "open"
           /\ status'[i] \in Ended
           /\ status'[i] = "done" => asked[i] \in answered'

Forgotten(i) == status[i] \in Ended /\ status'[i] = "gone"

(* One step may answer, end and forget several rows.                       *)
Advance ==
  /\ status' \in [Id -> Status]
  /\ answered' \in SUBSET Task
  /\ answered \subseteq answered'
  /\ answered' \ answered \subseteq {asked[i] : i \in Id}
  /\ \A i \in Id : status'[i] = status[i] \/ Ends(i) \/ Forgotten(i)
  /\ sole' = {i \in sole : ~Forgotten(i)}
  /\ UNCHANGED asked

Next == (\E i \in Id, t \in Task : Accept(i, t)) \/ Advance

Spec == Init /\ [][Next]_promiseVars
=============================================================================
