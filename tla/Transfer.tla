------------------------------ MODULE Transfer ------------------------------
(***************************************************************************)
(* What the daemon promises the bridge about each file transfer            *)
(* (tools.WriteFile, tools.UploadChunks and emitFileComplete): the         *)
(* destination changes once at most, from what it was to the whole new     *)
(* content; the bridge gets one answer at most, success when the new       *)
(* content is in place and failure when it is not; and after the answer    *)
(* the destination stays as the answer says.                               *)
(***************************************************************************)
CONSTANTS
    Transfers,  \* the file transfers of a session
    Old, Whole  \* what a destination held before, and the whole new content

VARIABLES
    stored,     \* the content of each destination
    told        \* the answer the bridge was sent

vars == <<stored, told>>

Init ==
    /\ stored = [f \in Transfers |-> Old]
    /\ told = [f \in Transfers |-> "none"]

\* The new content is put in place, all of it at once.
Store(f) ==
    /\ told[f] = "none" /\ stored[f] = Old
    /\ stored' = [stored EXCEPT ![f] = Whole]
    /\ UNCHANGED told

\* The bridge is told how it went.
Tell(f) ==
    /\ told[f] = "none"
    /\ \/ stored[f] = Whole /\ told' = [told EXCEPT ![f] = "ok"]
       \/ stored[f] = Old /\ told' = [told EXCEPT ![f] = "err"]
    /\ UNCHANGED stored

Next == \E f \in Transfers : Store(f) \/ Tell(f)

Spec == Init /\ [][Next]_vars
=============================================================================
