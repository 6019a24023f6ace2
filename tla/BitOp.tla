------------------------------- MODULE BitOp -------------------------------
(***************************************************************************)
(* common/util/BitOp.hpp: bitwise operations on byte strings.              *)
(*                                                                         *)
(* A byte is the set of its bits that are 1 and a std::string the sequence *)
(* of its bytes.  Every operation works byte by byte on the common part of *)
(* its operands; what it does beyond that part, and what it drops at the   *)
(* end of it, is where the operations differ.  What the code passes as     *)
(* function pointers are functions on bytes here.                          *)
(***************************************************************************)
EXTENDS Naturals, Sequences, FiniteSetsExt

CONSTANT Bits  \* the bit positions of a char

Byte == SUBSET Bits
Str  == Seq(Byte)

c_and        == [p \in Byte \X Byte |-> p[1] \cap p[2]]
c_or         == [p \in Byte \X Byte |-> p[1] \cup p[2]]
c_xor        == [p \in Byte \X Byte |-> (p[1] \ p[2]) \cup (p[2] \ p[1])]
c_and_not    == [p \in Byte \X Byte |-> p[1] \ p[2]]
c_not_or_not == [p \in Byte \X Byte |-> (Bits \ p[1]) \cup (Bits \ p[2])]
char_self    == [c \in Byte |-> c]
char_255     == [c \in Byte |-> Bits]
char_not     == [c \in Byte |-> Bits \ c]

\* Zero bytes are held back until a byte that is not zero follows.
DropTrailingZeros(s) == SubSeq(s, 1, Max({0} \cup {i \in DOMAIN s : s[i] # {}}))

\* Variant: the trailing zeros of the common part are always dropped.
str_bit_bin_op_dropping(a, b, f, a_tail_reserve, b_tail_reserve, a_tail_f, b_tail_f) ==
  LET n == Min({Len(a), Len(b)})
  IN DropTrailingZeros([i \in 1..n |-> f[<<a[i], b[i]>>]])
     \o (IF a_tail_reserve THEN [i \in 1..(Len(a) - n) |-> a_tail_f[a[n + i]]] ELSE <<>>)
     \o (IF b_tail_reserve THEN [i \in 1..(Len(b) - n) |-> b_tail_f[b[n + i]]] ELSE <<>>)

\* The trailing zeros of the common part are dropped when the operands are
\* equally long.  Of the longer operand, the rest follows if it is reserved.
str_bit_bin_op(a, b, f, a_tail_reserve, b_tail_reserve, a_tail_f, b_tail_f) ==
  LET n == Min({Len(a), Len(b)})
      common == [i \in 1..n |-> f[<<a[i], b[i]>>]]
      a_tail == [i \in 1..(Len(a) - n) |-> a_tail_f[a[n + i]]]
      b_tail == [i \in 1..(Len(b) - n) |-> b_tail_f[b[n + i]]]
  IN (IF Len(a) = Len(b) THEN DropTrailingZeros(common) ELSE common)
     \o (IF a_tail_reserve THEN a_tail ELSE <<>>)
     \o (IF b_tail_reserve THEN b_tail ELSE <<>>)

str_not(a) == DropTrailingZeros([i \in DOMAIN a |-> char_not[a[i]]])

str_and(a, b)     == str_bit_bin_op(a, b, c_and, FALSE, FALSE, char_self, char_self)
str_or(a, b)      == str_bit_bin_op(a, b, c_or, TRUE, TRUE, char_self, char_self)
str_xor(a, b)     == str_bit_bin_op(a, b, c_xor, TRUE, TRUE, char_self, char_self)
str_and_not(a, b) == str_bit_bin_op(a, b, c_and_not, TRUE, FALSE, char_self, char_self)
str_not_or_not(a, b) ==
  str_bit_bin_op(a, b, c_not_or_not, TRUE, TRUE, char_255, char_255)

\* The AND of the strings of vs that cs selects, or of their complements: what
\* the loop of the code holds after its turn j.
str_co_and(vs, cs, is_not) ==
  LET res[j \in 1..Len(cs)] ==
        IF j = 1 THEN IF is_not THEN str_not(vs[cs[1]]) ELSE vs[cs[1]]
        ELSE IF is_not THEN str_and_not(res[j - 1], vs[cs[j]]) ELSE str_and(res[j - 1], vs[cs[j]])
  IN res[Len(cs)]
=============================================================================
