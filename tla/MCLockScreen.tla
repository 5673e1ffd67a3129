---------------------------- MODULE MCLockScreen ----------------------------
(***************************************************************************)
(* Instances of LockScreen small enough for TLC.                           *)
(***************************************************************************)
EXTENDS LockScreen

Config(enabled, max, grace, blank, onStart) ==
  [enabled |-> enabled, max |-> max, grace |-> grace, blank |-> blank,
   onStart |-> onStart]

\* One attempt a lock; the reload turns the grace period, blanking and the
\* whole screen off and on. The cap stays: the screen looks at a new one only
\* when it is asked to do something.
ReloadedConfigs ==
  {Config(TRUE, 1, TRUE, TRUE, FALSE), Config(FALSE, 1, FALSE, FALSE, FALSE)}

\* An autologin session with two attempts and a grace period per lock.
AutologinConfig == {Config(TRUE, 2, TRUE, FALSE, TRUE)}

NoFaults  == {}
LockFails == {"lock"}
=============================================================================
