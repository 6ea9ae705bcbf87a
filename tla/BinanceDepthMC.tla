---------------------------- MODULE BinanceDepthMC ----------------------------
(* Instances of BinanceDepth: symbols are interchangeable.                   *)
EXTENDS BinanceDepth, TLC

SymbolSymmetry == Permutations(Symbols)
=============================================================================
