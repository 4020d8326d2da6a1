------------------------------- MODULE AppId -------------------------------
(***************************************************************************)
(* Two places of src/src/cesium_ion.cpp where the width of an integer      *)
(* matters: the parser of authorize's appID, a signed 64-bit integer read   *)
(* digit by digit without overflowing, and the bounds test of the asset and *)
(* token lists, one unsigned comparison for both ends.  The width is a      *)
(* parameter: signed integers are -Half .. Half - 1.                        *)
(***************************************************************************)
EXTENDS Integers, Sequences

CONSTANTS Half,   \* 2^63 for appID, 2^31 for an index
          None    \* no value

ASSUME HalfAssumption == Half \in Nat /\ Half >= 10
ASSUME NoneAssumption == None \notin Int

Signed == -Half .. Half - 1
Digits == 0..9

\* An appID as the parser reads it: a sign, and characters of which None stands for all those
\* that are no digit.
AppIdText == [sign : {"", "+", "-"}, chars : Seq(Digits \cup {None})]

\* C++ division truncates towards zero.
DivTen(n) == IF n >= 0 THEN n \div 10 ELSE -((-n) \div 10)

\* Fault: the guard on the way down as on the way up, without the digit.
DigitStepNoDigit(negative, value, digit) ==
    IF negative
    THEN IF value < DivTen(-Half) THEN None ELSE 10 * value - digit
    ELSE IF value > DivTen(Half - 1 - digit) THEN None ELSE 10 * value + digit

\* One round of the loop: the next value, or None where it would overflow.
DigitStep(negative, value, digit) ==
    IF negative
    THEN IF value < DivTen(-Half + digit) THEN None ELSE 10 * value - digit
    ELSE IF value > DivTen(Half - 1 - digit) THEN None ELSE 10 * value + digit

\* The value of a text of a sign and characters, or None where authorize gives up: nothing
\* follows the sign, a character is not a digit, or the number does not fit.
ParseAppId(text) ==
    LET chars == text.chars
        value[n \in 0..Len(chars)] ==
           IF n = 0 THEN 0
           ELSE IF value[n - 1] = None \/ chars[n] \notin Digits THEN None
           ELSE DigitStep(text.sign = "-", value[n - 1], chars[n])
    IN  IF chars = <<>> THEN None ELSE value[Len(chars)]

-----------------------------------------------------------------------------
\* static_cast<unsigned>(index)
AsUnsigned(index) == IF index < 0 THEN index + 2 * Half ELSE index

InList(index, size) == ~(AsUnsigned(index) >= size)

\* The count is an int.
ListCount(items) == Len(items)

\* The getters of the two lists: the field of an entry, or what stands for none.
AssetId(items, index) == IF InList(index, Len(items)) THEN items[index + 1].id ELSE -1
AssetName(items, index) == IF InList(index, Len(items)) THEN items[index + 1].name ELSE None
AssetType(items, index) == IF InList(index, Len(items)) THEN items[index + 1].type ELSE None
TokenName(items, index) == IF InList(index, Len(items)) THEN items[index + 1].name ELSE None
TokenValue(items, index) == IF InList(index, Len(items)) THEN items[index + 1].token ELSE None

-----------------------------------------------------------------------------
(* What they are checked against. *)

\* The number a text of digits denotes, however large.
Denotes(text) ==
    LET number[n \in 0..Len(text.chars)] ==
           IF n = 0 THEN 0 ELSE 10 * number[n - 1] + text.chars[n]
    IN  IF text.sign = "-" THEN -number[Len(text.chars)] ELSE number[Len(text.chars)]

IsNumber(text) == text.chars # <<>> /\ \A n \in 1..Len(text.chars) : text.chars[n] \in Digits

\* The overflow guards refuse exactly the numbers that do not fit: every text that denotes a
\* number of the width is parsed to that number, the two ends included, and no other is.
ParserExact(texts) ==
    \A text \in texts :
       ParseAppId(text) = IF IsNumber(text) /\ Denotes(text) \in Signed THEN Denotes(text) ELSE None

\* The unsigned comparison accepts exactly the indices of the list, negative ones excluded.
IndexExact(assetLists, tokenLists) ==
    \A index \in Signed :
       /\ \A items \in assetLists :
             IF index \in 0 .. ListCount(items) - 1
             THEN /\ AssetId(items, index) = items[index + 1].id
                  /\ AssetName(items, index) = items[index + 1].name
                  /\ AssetType(items, index) = items[index + 1].type
             ELSE AssetId(items, index) = -1 /\ AssetName(items, index) = None
       /\ \A items \in tokenLists :
             IF index \in 0 .. ListCount(items) - 1
             THEN /\ TokenName(items, index) = items[index + 1].name
                  /\ TokenValue(items, index) = items[index + 1].token
             ELSE TokenName(items, index) = None /\ TokenValue(items, index) = None

=============================================================================
