-------------------------- MODULE MCWavefrontScheduler --------------------------
(***************************************************************************)
(* WavefrontScheduler for TLC, with pages of one byte that fill a slot     *)
(* each, and the direct I/O engine beside it.  run_one reads on a thread   *)
(* of its own and not through the engine: they share no state, and a       *)
(* behaviour steps the one chosen at the start.                            *)
(***************************************************************************)
EXTENDS WavefrontScheduler, DirectIo

VARIABLE part

mcvars == <<part, wvars, ioVars>>

ByteEach == [p \in Pages |-> 1]

(* Four calls for two permits, one of which a panic takes away for good; an *)
(* empty read and one of two chunks.                                        *)
SomeChunks == [r \in Requests |-> IF r = "r1" THEN 0 ELSE IF r = "r2" THEN 2 ELSE 1]

MCInit == WInit /\ IoInit /\ part \in {"scheduler", "engine"}

MCNext ==
    /\ UNCHANGED part
    /\ \/ part = "scheduler" /\ WNext /\ UNCHANGED ioVars
       \/ part = "engine" /\ IoNext /\ UNCHANGED wvars

(* Each part is as fair as its module says.                                 *)
MCFairSpec ==
    /\ MCInit /\ [][MCNext]_mcvars
    /\ WF_mcvars(part = "scheduler" /\ RunStep /\ UNCHANGED <<part, ioVars>>)
    /\ \A r \in Requests :
           WF_mcvars(part = "engine" /\ Proceed(r) /\ UNCHANGED <<part, wvars>>)

(* Every call of submit returns, in the part that makes any.                *)
CallsReturn == part = "engine" => EveryCallReturns
=============================================================================
