----------------------------- MODULE MCEMDriver -----------------------------
(* Small populations on one shard of evidence.                              *)
EXTENDS EMDriver

CONSTANTS p1, p2, p3, s1

MCGarbage == {7}
MCShards == {s1}

(* Rising likelihoods, p3 a fixed point: what EM does without pseudo-counts, *)
(* not what the code promises.                                              *)
MCRisingParams == {p1, p2, p3}
MCRisingLik == [p \in MCRisingParams |-> [s \in MCShards |->
                  CASE p = p1 -> -30 [] p = p2 -> -20 [] OTHER -> -18]]
MCRisingStep == [p \in MCRisingParams |->
                  CASE p = p1 -> {p1, p2} [] p = p2 -> {p3} [] OTHER -> {p3}]

(* Anything goes: likelihoods that rise and fall, and one that is 0, the    *)
(* value the termination test takes for "none yet".                         *)
MCAnyParams == {p1, p2, p3}
MCAnyLik == [p \in MCAnyParams |-> [s \in MCShards |->
                  CASE p = p1 -> -30 [] p = p2 -> -28 [] OTHER -> 0]]
MCAnyStep == [p \in MCAnyParams |-> MCAnyParams]

(* What the theorems suppose of likelihoods is so here. *)
ASSUME LikelihoodsAreLogs

MCBoth == {"-u", "-alem"}
MCUpdate == {"-u"}
MCAlem == {"-alem"}
=============================================================================
