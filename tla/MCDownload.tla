----------------------------- MODULE MCDownload -----------------------------
(***************************************************************************)
(* Instances of Download for TLC.                                          *)
(***************************************************************************)
EXTENDS Download

CONSTANTS h1, h2

OneName   == [h \in Hashes |-> "f"]

\* h2 is the file with two chunks.
Growing   == [h \in Hashes |-> IF h = h1 THEN 1 ELSE 2]

\* One download of h1 gets in the way of two of h2.
Adds  == [h \in Hashes |-> IF h = h1 THEN 1 ELSE 2]
Kicks == [h \in Hashes |-> IF h = h1 THEN 1 ELSE 3]

-----------------------------------------------------------------------------
(* A behaviour is calm if h2 is downloaded alone and nothing gets lost.    *)

VARIABLE calm

mcvars == <<vars, calm>>

MCInit == Init /\ calm \in BOOLEAN

MCNext == (IF calm THEN Undisturbed(h2) ELSE Next) /\ UNCHANGED calm

InCalm(A) == calm /\ A /\ UNCHANGED calm

\* Timers fire; what is sent arrives and is served.
MCFairness ==
  /\ WF_mcvars(InCalm(RunTimer(h2))) /\ WF_mcvars(InCalm(CheckTurn(h2)))
  /\ WF_mcvars(InCalm(FinishTimer(h2))) /\ WF_mcvars(InCalm(DelTimer(h2)))
  /\ \A m \in Message :
       WF_mcvars(InCalm(Serve(m))) /\ WF_mcvars(InCalm(Give(m)))

MCSpec == MCInit /\ [][MCNext]_mcvars /\ MCFairness

\* Left alone on a network that loses nothing, a running download ends well,
\* though every ten silent seconds add another chain of requests.
Completes == calm /\ state[h2] = "RUN" ~> state[h2] = "DONE"
=============================================================================
