----------------------------- MODULE FetchLife -----------------------------
(***************************************************************************)
(* What fetch_header and fetch_transaction promise a caller, whatever peers *)
(* connect, answer, time out or leave: the life of one thing to fetch as    *)
(* the returned FetchStatus shows it.                                       *)
(*                                                                          *)
(*     none -> added -> fetching -> fetched                                 *)
(*               ^ \________|____________^                                  *)
(*               |          v                                               *)
(*               +------ notFound                                           *)
(*                                                                          *)
(* A fetch is never forgotten, and what is fetched stays.                   *)
(***************************************************************************)
CONSTANT Items
VARIABLE status   \* status[i]: the FetchStatus of item i

Statuses == {"none", "added", "fetching", "notFound", "fetched"}

Init == status = [i \in Items |-> "none"]

Becomes(i, from, to) == status[i] \in from /\ status' = [status EXCEPT ![i] = to]

\* A caller asks for the first time, or again after it was told "not found".
Ask(i) == Becomes(i, {"none", "notFound"}, "added")

\* Several items go out, and come back, with one message: each of them moves as
\* these steps say.
Moved(i) ==
    \/ status'[i] = status[i]
    \/ status[i] = "added" /\ status'[i] = "fetching"
    \/ status[i] \in {"added", "fetching"} /\ status'[i] = "notFound"
    \/ status[i] \in {"added", "fetching", "notFound"} /\ status'[i] = "fetched"

Exchange == status' \in [Items -> Statuses] /\ \A i \in Items : Moved(i)

Next == (\E i \in Items : Ask(i)) \/ Exchange

Spec == Init /\ [][Next]_status
=============================================================================
