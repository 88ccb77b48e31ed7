------------------------------ MODULE MCLogins ------------------------------
(* A TLC instance of Handoff for its safety properties: either two clients log in and the links
   hold, as if all failures were over, or one client is left and links fail. *)
EXTENDS Handoff, TLC

LoginsInit ==
    /\ ServersInit
    /\ \/ /\ client = [c \in Clients |-> Home]
          /\ cuts = [login |-> MaxLoginCuts, map |-> MaxMapCuts]
       \/ /\ \E c \in Clients : client = [d \in Clients |-> IF c = d THEN Home ELSE Gone]
          /\ cuts = [login |-> 0, map |-> 0]
LoginsSpec == LoginsInit /\ [][Next]_vars

(* Bound: no hourly list where all failures are over, which are half of the states. *)
HoursWhileLinksFail ==
    charHasLogin /\ toLogin' = Append(toLogin, AccountList) => cuts # [login |-> MaxLoginCuts, map |-> MaxMapCuts]

(* Login attempts are interchangeable. *)
Interchangeable == Permutations(Clients)
=============================================================================
