------------------------------ MODULE PhoneNumber ------------------------------
(***************************************************************************)
(* Which strings count as a phone number, and as which one: the serializer *)
(* (SubmitPhoneSerializer) gives the number that dedup keys and rows are   *)
(* made of, the form of landing.html decides what it sends.  A client may  *)
(* send any string; here it grows by one character at a time.              *)
(***************************************************************************)
EXTENDS Naturals, Sequences, FiniteSetsExt

CONSTANTS
  Digits,     \* how many digits follow +989 (9)
  MaxInput    \* bound on the length of a string

ASSUME PhoneNumberAssumption == Digits \in Nat \ {0} /\ MaxInput \in Nat

(* Characters by what the code tells apart.  "0" stands for the other      *)
(* ASCII digits, "eastern0" for the same digit in another script (Python's *)
(* \d takes it, JavaScript's does not), "plus" and "blank" for + and white *)
(* space, "x" for everything else.                                         *)
AsciiDigits == {"0", "8", "9"}
Chars       == AsciiDigits \cup {"plus", "eastern0", "blank", "x"}

VARIABLE input   \* what the client has put in the field "phone"

Init == input = <<>>
Next == Len(input) < MaxInput /\ \E ch \in Chars : input' = Append(input, ch)
Spec == Init /\ [][Next]_input

-----------------------------------------------------------------------------
(* str.strip() and String.trim(): without the blanks around it.            *)
Strip(s) ==
  LET solid == {i \in DOMAIN s : s[i] # "blank"}
  IN  IF solid = {} THEN <<>> ELSE SubSeq(s, Min(solid), Max(solid))

(* ^\+989\d{9}$, where \d is one of the given digits.                      *)
MatchesWith(digits, s) ==
  /\ Len(s) = 4 + Digits
  /\ SubSeq(s, 1, 4) = <<"plus", "9", "8", "9">>
  /\ \A i \in 5..Len(s) : s[i] \in digits

(* Mutant of MaxLength: the prefix is counted without its plus sign.       *)
MaxLengthNoPlus == 3 + Digits

(* CharField(max_length=13).                                               *)
MaxLength == 4 + Digits

(* Mutant of Accepts: CharField(trim_whitespace=False).                    *)
AcceptsUntrimmed(s) ==
  Strip(s) # <<>> /\ Len(s) <= MaxLength /\ MatchesWith(AsciiDigits \cup {"eastern0"}, Strip(s))

(* CharField trims, refuses blank and long strings; validate_phone strips  *)
(* again and matches PHONE_REGEX, a str pattern: \d is any decimal digit.  *)
Accepts(s) ==
  LET value == Strip(s) IN
  /\ value # <<>>
  /\ Len(value) <= MaxLength
  /\ MatchesWith(AsciiDigits \cup {"eastern0"}, Strip(value))

(* validated_data["phone"], when accepted.                                 *)
Number(s) == Strip(Strip(s))

(* validatePhoneFormat on the trimmed field: what the form sends.          *)
FormSends(s) == MatchesWith(AsciiDigits, Strip(s))

-----------------------------------------------------------------------------
(* The subscriber number a string denotes, in ASCII digits.                *)
Canonical(s) == [i \in DOMAIN s |-> IF s[i] = "eastern0" THEN "0" ELSE s[i]]

(* A visitor whose number the form accepts never gets an error for it from *)
(* the serializer, and it is stored as it was sent.                        *)
FormAgreesWithServer ==
  FormSends(input) => Accepts(Strip(input)) /\ Number(Strip(input)) = Strip(input)

(* Blanks around a number, which people paste with it, change neither      *)
(* whether it is accepted nor the dedup key it gets.                       *)
BlanksDoNotMatter ==
  LET padded == <<"blank">> \o input \o <<"blank">> IN
  Accepts(padded) = Accepts(input) /\ (Accepts(input) => Number(padded) = Number(input))

(* A subscriber has one dedup key, however the digits are written.         *)
OneKeyPerSubscriber ==
  Accepts(input) /\ Accepts(Canonical(input)) => Number(Canonical(input)) = Number(input)
=============================================================================
