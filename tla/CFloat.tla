------------------------------- MODULE CFloat -------------------------------
(***************************************************************************)
(* The C floats the regulator computes with: the numbers of a t_param      *)
(* Value and of Ps, Pr, Eb...  Finite values are integers, rounded toward  *)
(* zero, in the unit of the quantity (W, A, V; a state of charge is in     *)
(* tenths of a percent).  What the code's behaviour depends on is kept     *)
(* exactly: a division by zero is infinite or not a number, and a          *)
(* comparison with NaN is false, whatever the other operand is.            *)
(***************************************************************************)
EXTENDS Integers

CONSTANTS NaN, PosInf, NegInf    (* the three values no integer stands for *)

ASSUME FloatAssumption ==
    /\ NaN \notin Int /\ PosInf \notin Int /\ NegInf \notin Int
    /\ NaN # PosInf /\ NaN # NegInf /\ PosInf # NegInf

Float == Int \cup {NaN, PosInf, NegInf}

Abs(x) == IF x < 0 THEN -x ELSE x

Truncated(x, y) == IF (x < 0) = (y < 0) THEN Abs(x) \div Abs(y)
                                        ELSE -(Abs(x) \div Abs(y))

(* x / y of two finite floats. *)
FDiv(x, y) == IF y # 0 THEN Truncated(x, y)
              ELSE IF x = 0 THEN NaN
              ELSE IF x > 0 THEN PosInf ELSE NegInf

(* x >= y and x > y. *)
Ge(x, y) == /\ x # NaN
            /\ y # NaN
            /\ \/ x = y \/ x = PosInf \/ y = NegInf
               \/ x \in Int /\ y \in Int /\ x >= y

Gt(x, y) == Ge(x, y) /\ x # y
=============================================================================
