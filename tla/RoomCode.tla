------------------------------- MODULE RoomCode -------------------------------
(***************************************************************************)
(* Room codes, U/XXXX-XXXX-XXXX-XXXX: a number written with 34 characters, *)
(* the lowest digit first, whose halves are also the name and the secret   *)
(* of the EasyTier network (create_room, parse and from_value in room.rs). *)
(* Here the number of digits and the characters are parameters; a code is  *)
(* a sequence of characters, a network a pair of sequences of digits.      *)
(***************************************************************************)
EXTENDS Integers, SequencesExt

CONSTANTS
  Chars,     \* CHARS, a sequence of characters without I, O and lower case
  UpperOf,   \* to_ascii_uppercase on the characters that it changes
  Group,     \* digits between two dashes; a code has four groups
  Modulus    \* 7

ASSUME RoomCodeAssumption ==
  /\ Chars \in Seq(STRING)
  /\ IsInjective(Chars)
  /\ ToSet(Chars) \cap ({"I", "O", "-"} \cup DOMAIN UpperOf) = {}
  /\ {"0", "1"} \subseteq ToSet(Chars)
  /\ Group \in Nat \ {0}
  /\ Modulus \in Nat \ {0}

Base == Len(Chars)
Digits == 4 * Group
Power[k \in 0 .. Digits] == IF k = 0 THEN 1 ELSE Power[k - 1] * Base
Numbers == 0 .. Power[Digits] - 1

NoRoom == -1

-----------------------------------------------------------------------------

\* lookup_char on what to_ascii_uppercase left: a digit, or Base for None.
Upper(c) == IF c \in DOMAIN UpperOf THEN UpperOf[c] ELSE c

LookupChar(c) ==
  LET char == CASE c = "I" -> "1" [] c = "O" -> "0" [] OTHER -> c
      found == {j \in DOMAIN Chars : Chars[j] = char}
  IN  IF found = {} THEN Base ELSE (CHOOSE j \in found : TRUE) - 1

\* create_room makes the number a multiple of 7.
Rounded(random) == random - (random % Modulus)

\* The digits of from_value, the lowest first.
DigitsOf(value) == [i \in 1 .. Digits |-> (value \div Power[i - 1]) % Base]

\* The places of a code: the prefix, the digits, and dashes between groups.
Size == 2 + Digits + 3
IsDash(i) == i > 2 /\ (i - 2) % (Group + 1) = 0
DigitAt(i) == i - 2 - (i - 2) \div (Group + 1)
PlaceOf(d) == 2 + d + (d - 1) \div Group

Code(value) ==
  LET digits == DigitsOf(value)
  IN  [i \in 1 .. Size |-> CASE i = 1 -> "U"
                             [] i = 2 -> "/"
                             [] IsDash(i) -> "-"
                             [] OTHER -> Chars[digits[DigitAt(i)] + 1]]

(* Seeded fault: the secret repeats the first half. *)
NetworkOfHalf(value) ==
  LET digits == DigitsOf(value)
  IN  [name |-> SubSeq(digits, 1, Digits \div 2), secret |-> SubSeq(digits, 1, Digits \div 2)]

Network(value) ==
  LET digits == DigitsOf(value)
  IN  [name |-> SubSeq(digits, 1, Digits \div 2),
       secret |-> SubSeq(digits, Digits \div 2 + 1, Digits)]

\* The loop of parse() runs downwards, from the highest digit.
WithDigit(value, digit) == value * Base + digit

ValueOf(window) ==
  FoldLeft(WithDigit, 0,
           [k \in 1 .. Digits |-> LookupChar(window[PlaceOf(Digits + 1 - k)])])

\* A window of the text that parse() does not skip with `continue`.
IsCode(window) ==
  /\ window[1] = "U" /\ window[2] = "/"
  /\ \A i \in 3 .. Size :
       IF IsDash(i) THEN window[i] = "-" ELSE LookupChar(window[i]) # Base

Windows(text) ==
  [k \in 1 .. Len(text) - Size + 1 |-> [i \in 1 .. Size |-> Upper(text[k + i - 1])]]

(* Seeded fault: the first code that is no room ends the search. *)
ParseFirstOnly(text) ==
  LET windows == Windows(text)
      codes == {k \in DOMAIN windows : IsCode(windows[k])}
      first == CHOOSE k \in codes : \A j \in codes : k <= j
  IN  IF codes = {} \/ ValueOf(windows[first]) % Modulus # 0
      THEN NoRoom ELSE ValueOf(windows[first])

\* The first window that is the code of a multiple of 7 is the room; text
\* around it is welcome.
Parse(text) ==
  LET windows == Windows(text)
      rooms == {k \in DOMAIN windows :
                  IsCode(windows[k]) /\ ValueOf(windows[k]) % Modulus = 0}
  IN  IF rooms = {} THEN NoRoom
      ELSE ValueOf(windows[CHOOSE k \in rooms : \A j \in rooms : k <= j])

=============================================================================
