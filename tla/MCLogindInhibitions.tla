------------------------ MODULE MCLogindInhibitions ------------------------
(* Instances of LogindInhibitions for TLC.                                 *)
EXTENDS LogindInhibitions

CONSTANTS app1

Player == [who |-> <<"player">>, why |-> <<"video">>]

LockIds == {Player}

Lock(pid, id, policies, mode, own) ==
    [pid |-> pid, id |-> id, policies |-> policies, mode |-> mode, own |-> own]

\* Locks of two processes of one application.
PlayerScreen == Lock(1, Player, {"ChangeScreenSettings"}, "block", FALSE)
PlayerSleep  == Lock(2, Player, {"InterruptSession"}, "block", FALSE)

TwoLocks == {PlayerScreen, PlayerSleep}

ScreenOnly == {{"ChangeScreenSettings"}}
=============================================================================
