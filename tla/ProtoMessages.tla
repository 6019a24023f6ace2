---------------------------- MODULE ProtoMessages ----------------------------
(***************************************************************************)
(* What the generated classes promise: messages are values.  No operation  *)
(* on one message shows in another; what is sent arrives as the merge of   *)
(* the pieces that got through, whatever wrote or passed them on; and only *)
(* a piece torn in two or a string that is no text is refused.             *)
(***************************************************************************)
EXTENDS ProtoSchema

CONSTANTS Objects, Kinds, ExtraFields

VARIABLES kind,    \* the class the messages are of
          objs,    \* the messages
          hand     \* a message a caller has taken out of another, or None

vars == <<kind, objs, hand>>

Spoiled == [class |-> "spoiled"]   \* after a refused parse: fit to be replaced only
Fit(v)  == v # Spoiled

Init ==
  /\ kind \in Kinds
  /\ objs = [o \in Objects |-> Default(kind)]
  /\ hand = None

\* Each operation is a condition on the messages before (m) and after (n) it.

Set(m, n, o) ==
  /\ Fit(m[o])
  /\ Fit(n[o])
  /\ \E x \in Names(kind) : n = [m EXCEPT ![o] = [@ EXCEPT ![x] = n[o][x]]]
  /\ UNCHANGED hand

\* release_: the caller owns it now.
Take(m, n, o) ==
  /\ Fit(m[o])
  /\ hand = None
  /\ \E x \in Names(kind) :
       /\ IsOptional(FieldOf(kind, x))
       /\ hand' = m[o][x]
       /\ n = [m EXCEPT ![o] = [@ EXCEPT ![x] = None]]

\* set_allocated_: the message owns it again.
Give(m, n, o) ==
  /\ Fit(m[o])
  /\ hand # None
  /\ \E x \in Names(kind) :
       /\ FieldOf(kind, x).type = hand.class
       /\ n = [m EXCEPT ![o] = [@ EXCEPT ![x] = hand]]
  /\ hand' = None

Reset(m, n, o) ==
  /\ n = [m EXCEPT ![o] = Default(kind)]
  /\ UNCHANGED hand

Merge(m, n, o, from) ==
  /\ Fit(m[o])
  /\ Fit(m[from])
  /\ n = [m EXCEPT ![o] = Merged(@, m[from])]
  /\ UNCHANGED hand

Copy(m, n, o, from) ==
  /\ Fit(m[from])
  /\ n = [m EXCEPT ![o] = m[from]]
  /\ UNCHANGED hand

Swap(m, n, o, other) ==
  /\ n = [m EXCEPT ![o] = m[other], ![other] = m[o]]
  /\ UNCHANGED hand

\* The end is lost between two pieces; or a peer with a newer schema adds a
\* field.  One with an older schema changes nothing.
Arriving(pieces) ==
  {pieces} \cup {Front(pieces) : cut \in {pieces} \ {<<>>}}
           \cup {Append(pieces, IF f.tag = 8 THEN NumberPiece(kind, f)
                                             ELSE Piece(kind, "unknown", <<f>>)) : f \in ExtraFields}

Refused(pieces) == \E i \in DOMAIN pieces : ~Readable(pieces[i])

\* A wire that ends within a piece is refused, too.
Transfer(m, n, o, from) ==
  /\ \A i \in DOMAIN from : Fit(m[from[i]])
  /\ \A p \in Objects \ {o} : n[p] = m[p]
  /\ LET sent == FoldLeft(LAMBDA all, r : all \o Pieces(m[r]), <<>>, from)
     IN \/ \E got \in Arriving(sent) :
             n[o] = IF Refused(got) THEN Spoiled ELSE FoldLeft(Merged, Default(kind), got)
        \/ sent # <<>> /\ n[o] = Spoiled
  /\ UNCHANGED hand

Drop(m, n) ==
  /\ hand' = None
  /\ n = m

Next ==
  LET m == objs
      n == objs'
  IN /\ UNCHANGED kind
     /\ \/ Drop(m, n)
        \/ \E o \in Objects : Set(m, n, o) \/ Take(m, n, o) \/ Give(m, n, o) \/ Reset(m, n, o)
        \/ \E o, p \in Objects : Merge(m, n, o, p) \/ Copy(m, n, o, p) \/ Swap(m, n, o, p)
        \/ \E o, p \in Objects : Transfer(m, n, o, <<p>>)
        \/ \E o, p, q \in Objects : p # q /\ Transfer(m, n, o, <<p, q>>)

Spec == Init /\ [][Next]_vars
=============================================================================
