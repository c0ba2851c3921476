-------------------------------- MODULE MCCodecs --------------------------------
(***************************************************************************)
(* Values of every type, proper and improper, up to each limit, and what a *)
(* peer may frame: every tag with every kind of atom, wrong arities, lists *)
(* in the wrong place, records whose keys are out of order, repeated or no *)
(* symbols, nesting up to the limits and past them.                        *)
(***************************************************************************)
EXTENDS Codecs

Integers ==
  {Uap!FromInt(n) : n \in {0, 1, -7, 10, 99, 100, -100, 105, 999, 1000, -1000}}
  \cup {Uap!Integer(s, l) : s \in {-1, 0, 1, 2},
                            l \in {<< >>, << 0 >>, << 5, 0 >>, << 0, 1 >>, << 100 >>}}
Leaves ==
  {Uap!NullValue, Uap!Bool(TRUE), Uap!Bool(FALSE), [type |-> "float"],
   Uap!Text(<< >>), Uap!Text(<< 195, 169 >>), Uap!Text(<< 195 >>),
   Uap!Text(<< 237, 160, 128 >>), Uap!Text(<< 224, 128, 128 >>),
   Uap!Octets(<< >>), Uap!Octets(<< 40, 195, 58, 44 >>), Uap!Octets(<< 1, 2, 3, 4, 5 >>),
   Uap!Symbol(<< 97 >>), Uap!Symbol(<< 65, 45 >>), Uap!Symbol(<< 49 >>),
   Uap!Symbol(<< >>), Uap!Symbol(<< 97, 98, 99 >>)}
  \cup Integers

N == Uap!NullValue
A == << 97 >>
AB == << 97, 98 >>
B == << 98 >>
Fields == {<< k, v >> : k \in {A, AB, B, << >>}, v \in {N, Uap!FromInt(7)}}

Composites ==
  {Uap!ListOf(<< >>), Uap!ListOf(<< N, N, N, N >>), Uap!ListOf(<< N, N, N, N, N >>),
   Uap!ListOf(<< Uap!Text(<< 195 >>), N, [type |-> "float"] >>),
   Uap!RecordOf(<< >>), Uap!ListOf(<< Uap!ListOf(<< N >>) >>),
   Uap!ListOf(<< Uap!ListOf(<< Uap!ListOf(<< N >>) >>) >>),
   Uap!RecordOf(<< << A, Uap!RecordOf(<< << A, N >> >>) >> >>),
   Uap!ListOf([i \in 1 .. 3 |-> Uap!Octets(<< 1, 1, 1, 1 >>)])}
  \cup {Uap!ListOf(<< v >>) : v \in Leaves}
  \cup {Uap!RecordOf(<< f, g >>) : f, g \in Fields}

MCValues == Leaves \cup Composites

-------------------------------------------------------------------------------
\* S-expressions as a peer writes them, within the limits of an atom or not.
Raw(bytes) == Decimal[Len(bytes)] \o << Colon >> \o bytes
Paren(items) == << 40 >> \o FlattenSeq(items) \o << 41 >>

Tags == {Uap!Tag[t] : t \in DOMAIN Uap!Tag} \cup {<< 120 >>}
Atoms ==
  {<< >>, << 48 >>, << 48, 55 >>, << 45, 48 >>, << 43, 49 >>, << 45 >>, << 49, 48, 48 >>,
   << 45, 57, 48, 53 >>, << 49, 48, 48, 48 >>, << 116 >>, << 97, 45 >>, << 195, 169 >>,
   << 195 >>, << 97, 97, 97 >>, << 49, 50, 51, 52, 53 >>}

Nil == Paren(<< Raw(Uap!Tag.null) >>)
Entry(key) == Paren(<< Raw(key), Nil >>)
MCPayloads ==
  {Paren(<< Raw(Uap!Tag.int), Raw(a) >>) : a \in Atoms}
  \cup {Paren(<< Raw(t), Raw(a) >>) : t \in Tags, a \in {<< >>, << 116 >>, << 97, 45 >>,
          << 195, 169 >>, << 195 >>, << 97, 97, 97 >>}}
  \cup {Paren(<< Raw(t) >>) : t \in Tags}
  \cup {Paren(<< Raw(t), Nil >>) : t \in Tags}
  \cup {Paren(<< Raw(t), Raw(A), Raw(A) >>) : t \in Tags}
  \cup {Paren(<< Raw(Uap!Tag.record), Entry(k), Entry(l) >>) :
          k \in {A, B}, l \in {A, AB, << 49 >>}}
  \cup {Paren(<< Raw(Uap!Tag.record), Paren(<< Nil, Nil >>) >>), Paren(<< Nil >>),
        Paren(<< >>), << >>, Raw(A), Nil \o Nil,
        Paren(<< Paren(<< Paren(<< Paren(<< >>) >>) >>) >>),
        Paren(<< Raw(Uap!Tag.list), Nil, Nil, Nil, Nil, Nil >>)}

MCFollowers == {Uap!Netstring(Nil), Uap!Netstring(<< 40 >>)}
MCAlphabet == {40, 41, 44, 45, 48, 49, 53, 58, 97}
===============================================================================
