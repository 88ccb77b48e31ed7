----------------------------- MODULE Gatherings -----------------------------
(* Duels, chat rooms and battleground teams together: sessions and lists that name each other.  They
   share no state, so each step is of one of them. *)
EXTENDS Duels, Rooms

GatherInit == DuelInit /\ RoomInit
GatherNext ==
    \/ DuelNext /\ UNCHANGED roomVars
    \/ (ChatNext \/ WaitingNext \/ GuestNext \/ TeamNext) /\ UNCHANGED duelVars
GatherSpec == GatherInit /\ [][GatherNext]_<<duelVars, roomVars>>

(* Members of duels, chat rooms and battleground teams are listed where they believe to be, and nowhere
   else (the parts are stated in their modules). *)
MembersAgree == DuelsAgree /\ RoomsAgree
=============================================================================
