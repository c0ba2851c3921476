--------------------------------- MODULE Prng ---------------------------------
(***************************************************************************)
(* Counter-addressed sampling (shen/world/prng.shen).  A stream is a path  *)
(* and a counter; a sample hashes the coordinates (path, counter, block),  *)
(* block = 0, 1, ..., until a hash falls below the largest multiple of the *)
(* bound, and moves the stream on by one counter however many blocks it    *)
(* read.  SHA-256 is an arbitrary function of the coordinates, Hash, into  *)
(* 0 .. Space - 1; Space is 2^256 in the code.                             *)
(***************************************************************************)
EXTENDS Naturals, Sequences

CONSTANTS
  Paths,       \* (subsystem, actor, purpose) triples the PRNG accepts
  Space,       \* number of hash values
  MaxBlock,    \* last block a rejection loop reaches (bound of the model)
  Hash(_, _, _) \* (path, counter, block): the hash, as a number

ASSUME SpaceAssumption == Space \in Nat \ {0} /\ MaxBlock \in Nat

\* The values below Acceptable(bound) map onto 0 .. bound - 1 with no bias.
Acceptable(bound) == (Space \div bound) * bound

\* The first block whose hash the rejection loop accepts.
AcceptedBlock(path, counter, bound) ==
  CHOOSE b \in 0 .. MaxBlock :
    /\ Hash(path, counter, b) < Acceptable(bound)
    /\ \A c \in 0 .. b - 1 : Hash(path, counter, c) >= Acceptable(bound)

Coordinates(path, counter, block) ==
  [i \in 1 .. block + 1 |->
     [path |-> path, counter |-> counter, block |-> i - 1]]

Sample(path, counter, bound) ==
  LET block == AcceptedBlock(path, counter, bound)
  IN  [index       |-> Hash(path, counter, block) % bound,
       counter     |-> counter + 1,
       coordinates |-> Coordinates(path, counter, block)]
===============================================================================
