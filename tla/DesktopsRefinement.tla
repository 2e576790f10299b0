-------------------------- MODULE DesktopsRefinement --------------------------
(* SessionManager as an implementation of Desktops: what its two maps, its tasks   *)
(* and its processes say of each desktop.                                          *)
EXTENDS SessionManager

AttachedSomewhere(d) == \E c \in Clients : ses[c] = d
BeingLoggedOut(d) == \E x \in Tasks : held[x] = d /\ pc[x] = "logout.terminate"

PlaceOf(d) ==
  IF ~IsDesktop(d) THEN "none"
  ELSE IF fate[d] # "live" THEN "ended"
  ELSE IF AttachedSomewhere(d) THEN "shown"
  ELSE IF background[kind[d]] = d THEN "parked"
  ELSE IF BeingLoggedOut(d) THEN "leaving"
  ELSE "moving"

ClientOf(d) ==
  IF PlaceOf(d) = "shown" THEN CHOOSE c \in Clients : ses[c] = d ELSE "none"

ScreenOf(d) == IF IsDesktop(d) THEN origin[d] ELSE 0

Runs(d) == IsDesktop(d) /\ proc[d] = "running"

D == INSTANCE Desktops WITH
  Sessions <- Gens, Nobody <- "none", NoScreen <- 0, proof <- authed,
  user <- [d \in Gens |-> UserOf(d)],
  place <- [d \in Gens |-> PlaceOf(d)],
  on <- [d \in Gens |-> ClientOf(d)],
  screen <- [d \in Gens |-> ScreenOf(d)],
  alive <- [d \in Gens |-> Runs(d)]

\* A user has one desktop, which appears only where that user's password was accepted for
\* it, survives everything but a log-out and its own death, and is never in transit for
\* ever: every step of launch, cancel, PLAY, handoff, log-out and the watchers is one of
\* Desktops or changes nothing there.
ImplementsDesktops == D!Spec
===============================================================================
