-------------------------- MODULE SharedConnection --------------------------
(***************************************************************************)
(* What Server.connected and lazyApp promise the tool calls: calls that    *)
(* arrive together share one attempt and its answer; an answer is never    *)
(* older than the call; a success is kept and never repeated; a failure is *)
(* kept for nobody who asks later; whoever leaves takes nothing away from  *)
(* the others.                                                             *)
(***************************************************************************)
CONSTANT Calls

VARIABLES
    link,   \* the connection: none, opening, open, or shut with the server
    ask     \* what each call has been told

vars == <<link, ask>>

\* Whoever waits is told the result.
Told(answer) == [c \in Calls |-> IF ask[c] = "waiting" THEN answer ELSE ask[c]]

Init == link = "none" /\ ask = [c \in Calls |-> "idle"]

Ask(c) ==
    /\ ask[c] = "idle"
    /\ \/ /\ link = "open"
          /\ ask' = [ask EXCEPT ![c] = "served"]
          /\ UNCHANGED link
       \/ /\ link \in {"none", "opening"}
          /\ ask' = [ask EXCEPT ![c] = "waiting"]
          /\ link' = "opening"

Opened == link = "opening" /\ link' = "open" /\ ask' = Told("served")

Failed == link = "opening" /\ link' = "none" /\ ask' = Told("failed")

Leave(c) ==
    /\ ask[c] \in {"waiting", "served", "failed"}
    /\ ask' = [ask EXCEPT ![c] = "left"]
    /\ UNCHANGED link

Shut == link # "shut" /\ link' = "shut" /\ ask' = Told("left")

Next ==
    \/ \E c \in Calls : Ask(c) \/ Leave(c)
    \/ Opened \/ Failed \/ Shut

\* An attempt ends: the opener has its own time limit.
Spec == Init /\ [][Next]_vars /\ WF_vars(Opened \/ Failed)
=============================================================================
