-------------------------- MODULE MCIonConnection --------------------------
(* Instances of IonConnection for TLC: a width of 32 values, texts of up to three characters, *)
(* of which None stands for all that is no digit.                                             *)
EXTENDS IonConnection, SequencesExt

CONSTANTS c1, c2

SmallTexts == [sign : {"", "+", "-"}, chars : BoundedSeq({0, 1, 5, 6, 7, None}, 3)]

Asset(n) == [id |-> n, name |-> <<"name", n>>, type |-> <<"type", n>>]
Token(n) == [name |-> <<"name", n>>, token |-> <<"token", n>>]
SmallAssetLists == {[i \in 1..n |-> Asset(10 * i)] : n \in 0..3}
SmallTokenLists == {[i \in 1..n |-> Token(i)] : n \in 0..3}

\* The two calls are alike: each pair of kinds that connect once, and each of them with a list of
\* the connection it makes.  The two lists differ in what they answer and in nothing they do, so
\* that the tokens have one such pair.
Order == <<"blocking", "async", "authorize">>
Pair(first, second) == [c \in Calls |-> IF c = c1 THEN first ELSE second]
Pairs == UNION {{Pair(Order[i], Order[j]) : i \in 1..j} : j \in 1..3}
         \cup {Pair(kind, "assets") : kind \in Range(Order)} \cup {Pair("async", "tokens")}

=============================================================================
