---------------------------- MODULE ChannelSlot -----------------------------
(***************************************************************************)
(* What a channel slot promises to whoever shares it: the life cycle that  *)
(* ssh_tunnel.cpp, which binds slots and reports their events, and         *)
(* ssh_transport.cpp with ssh_channel.cpp, which pump and free them, both  *)
(* rely on.  A slot is used again only after its close was reported, its   *)
(* cooldown is over and no abandoned channel waits for a new session.      *)
(* ChannelPump and every slot of SshTunnel implement this specification.   *)
(***************************************************************************)

VARIABLES life,      \* Free, Open or Draining
          cooling,   \* freed by finalizeClose a short time ago
          owed,      \* its close event is still to be reported
          degraded   \* some slot of the session was abandoned

slotVars == <<life, cooling, owed, degraded>>

Init == life = "Free" /\ ~cooling /\ ~owed /\ ~degraded

\* Another slot may be abandoned in the same round.
DegradedOrNot == degraded' \in {degraded, TRUE}

Bind ==
  /\ life = "Free" /\ ~cooling /\ ~owed /\ ~degraded
  /\ life' = "Open"
  /\ UNCHANGED <<cooling, owed, degraded>>

BeginClose ==
  /\ life = "Open"
  /\ life' = "Draining"
  /\ DegradedOrNot
  /\ UNCHANGED <<cooling, owed>>

\* Closed and freed by libssh2; in one round if the close is due at once.
Finalize ==
  /\ life \in {"Open", "Draining"} /\ ~owed
  /\ life' = "Free" /\ cooling' = TRUE /\ owed' = TRUE
  /\ DegradedOrNot

\* Only a slot that has been draining for long is abandoned; it costs the session.
Abandon ==
  /\ life = "Draining" /\ ~owed
  /\ life' = "Free" /\ owed' = TRUE /\ degraded' = TRUE
  /\ UNCHANGED cooling

Degrade == degraded' = TRUE /\ UNCHANGED <<life, cooling, owed>>

\* Freed without a trace in libssh2; finalizeClose may have come first.
Emptied ==
  /\ life' = "Free"
  /\ cooling' \in {cooling, cooling \/ life # "Free"}

Report ==
  /\ ~degraded
  /\ owed' = FALSE
  /\ UNCHANGED <<life, cooling, degraded>>

ReportAndFail ==
  /\ degraded
  /\ Emptied
  /\ owed' = FALSE /\ degraded' = FALSE

\* The session ends between two rounds; the close is reported at once.
SessionEnds ==
  /\ ~owed /\ ~degraded
  /\ Emptied
  /\ UNCHANGED <<owed, degraded>>

CooledDown == cooling /\ cooling' = FALSE /\ UNCHANGED <<life, owed, degraded>>

Next ==
  \/ Bind \/ BeginClose \/ Finalize \/ Abandon \/ Degrade
  \/ Report \/ ReportAndFail \/ SessionEnds \/ CooledDown

Spec == Init /\ [][Next]_slotVars
=============================================================================
