-------------------------- MODULE MCSessionEditing --------------------------
(***************************************************************************)
(* SessionEditing on the small instances of the MC*.cfg files.             *)
(***************************************************************************)
EXTENDS SessionEditing, TLC

CONSTANT MaxAdded  \* bound on the uploads and utterances of one exploration

Added == Cardinality({c \in Clips : pc[<<"append", c>>] # "idle"})
         + Cardinality({m \in Mic : sent[m[1]] >= m[2]})

\* Only people are held back by the bound: AppendStart and Ship are not fair.
SmallSession == Added <= MaxAdded

\* Once a pipeline has dropped files, one thing less is added.
DropsAmongFew == dropped = {} \/ Added < MaxAdded

\* An upload or the microphone: what is between them is MCTranscript's subject.
OneSource ==
    \/ \A c \in Clips : pc[<<"append", c>>] = "idle"
    \/ \A s \in Sockets : sock[s] = "off"

\* Neither the clips nor the sockets are named anywhere.
SessionSymmetry == Permutations(Clips) \cup Permutations(Sockets)
=============================================================================
