--------------------------- MODULE MCLoginQueue ---------------------------
(***************************************************************************)
(* Small instances of LoginQueue.                                          *)
(***************************************************************************)
EXTENDS LoginQueue, TLC

Config(seats, login, logout, alive) ==
    [m_iMaxOnlineNum |-> seats, m_iLoginProtectTime |-> login,
     m_iLogoutProtectTime |-> logout, m_iQueueAliveInterval |-> alive]

\* The capacity may be lowered below what is taken, closed, and raised again.
ThreeConfigs == {Config(0, 0, 1, 0), Config(1, 1, 0, 1), Config(2, 0, 1, 1)}

=============================================================================
