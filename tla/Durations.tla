------------------------------- MODULE Durations -------------------------------
(***************************************************************************)
(* duration_nanos of src/src/receipt.rs: the restricted durations of a     *)
(* manifest's `log` object.                                                *)
(*                                                                         *)
(* A value is a sequence of lexemes: a numeral, which stands for a maximal *)
(* run of digits, or one other character.                                  *)
(***************************************************************************)
EXTENDS Naturals, Sequences

CONSTANTS
    Numerals,         \* runs of digits
    ValueOf,          \* the number each of them spells
    WidthOf,          \* how many digits it has
    SecondsIn,        \* seconds in a "D", "H", "M" and "S"
    FractionDigits,   \* 9: digits of a second that are told apart
    MaxComponent,     \* u64::MAX
    MaxTotal,         \* u128::MAX
    Texts             \* the values declared

ASSUME DurationAssumption ==
    /\ ValueOf \in [Numerals -> Nat]
    /\ WidthOf \in [Numerals -> Nat \ {0}]
    /\ SecondsIn \in [{"D", "H", "M", "S"} -> Nat]
    /\ {FractionDigits, MaxComponent, MaxTotal} \subseteq Nat

VARIABLES
    text,
    place,        \* the lexeme reached; 0 before the first
    nextUnit,     \* the first unit of the time part not yet passed
    total,        \* nanoseconds so far
    components,   \* components so far
    reading       \* "open", "accepted", "rejected"

durationVars == <<text, place, nextUnit, total, components, reading>>

Units == <<"H", "M", "S">>
Nanos == 10 ^ FractionDigits

Refuse == reading' = "rejected" /\ UNCHANGED <<text, place, nextUnit, total, components>>

\* digits: one run of digits, of a number that fits.
IsNumber(s) == Len(s) = 1 /\ s[1] \in Numerals /\ ValueOf[s[1]] <= MaxComponent

NumberOf(s) == ValueOf[s[1]]

\* The first place at or after n whose lexeme is in S; none is behind the end.
FirstOf(S, n) ==
    CHOOSE k \in n..(Len(text) + 1) :
        /\ k <= Len(text) => text[k] \in S
        /\ \A j \in n..(k - 1) : text[j] \notin S

\* One component more, unless the total no longer fits.
Count(value, next, unit) ==
    IF total + value > MaxTotal THEN Refuse
    ELSE /\ total' = total + value
         /\ components' = components + 1
         /\ place' = next
         /\ nextUnit' = unit
         /\ UNCHANGED <<text, reading>>

-------------------------------------------------------------------------------
TimeStart == FirstOf({"T"}, 2)

\* The date part admits days only.
ReadDate ==
    LET date == SubSeq(text, 2, TimeStart - 1)
        days == SubSeq(date, 1, Len(date) - 1)
    IN  /\ reading = "open" /\ place = 0
        /\ IF text = <<>> \/ text[1] # "P" THEN Refuse
           ELSE IF date = <<>>
           THEN place' = TimeStart /\ UNCHANGED <<text, nextUnit, total, components, reading>>
           ELSE IF date[Len(date)] # "D" \/ ~IsNumber(days) THEN Refuse
           ELSE Count(NumberOf(days) * SecondsIn["D"] * Nanos, TimeStart, nextUnit)

\* A dangling `T` designates nothing.
EnterTime ==
    /\ reading = "open" /\ place > 0
    /\ place = TimeStart /\ place <= Len(text)
    /\ IF place = Len(text) THEN Refuse
       ELSE place' = place + 1 /\ UNCHANGED <<text, nextUnit, total, components, reading>>

\* The digits behind the point, as nanoseconds.
Fraction(s) == NumberOf(s) * 10 ^ (FractionDigits - WidthOf[s[1]])

\* The whole and the fraction of seconds around the first point.
IsFractional(number) ==
    LET point == CHOOSE k \in DOMAIN number :
                    number[k] = "." /\ \A j \in 1..(k - 1) : number[j] # "."
        fraction == SubSeq(number, point + 1, Len(number))
    IN  /\ IsNumber(SubSeq(number, 1, point - 1))
        /\ IsNumber(fraction) /\ WidthOf[fraction[1]] <= FractionDigits

Amount(number, unit) ==
    IF Len(number) = 1 THEN NumberOf(number) * SecondsIn[unit] * Nanos
    ELSE NumberOf(number) * Nanos + Fraction(SubSeq(number, 3, 3))

\* Mutant of MayFollow: a unit may come again.
MayRepeat(unit) == unit + 1 >= nextUnit

\* H, M, S, each at most once.
MayFollow(unit) == unit >= nextUnit

ReadComponent ==
    LET at == FirstOf({text[k] : k \in DOMAIN text} \ (Numerals \cup {"."}), place)
        number == SubSeq(text, place, at - 1)
        Pointed == \E k \in DOMAIN number : number[k] = "."
        unit == {u \in DOMAIN Units : at <= Len(text) /\ Units[u] = text[at]}
    IN  /\ reading = "open"
        /\ 0 < place /\ TimeStart < place /\ place <= Len(text)
        /\ IF unit = {} \/ \E u \in unit : ~MayFollow(u) THEN Refuse
           ELSE IF Pointed /\ ~(text[at] = "S" /\ IsFractional(number)) THEN Refuse
           ELSE IF ~Pointed /\ ~IsNumber(number) THEN Refuse
           ELSE \E u \in unit : Count(Amount(number, text[at]), at + 1, u + 1)

\* At least one component.
EndDuration ==
    /\ reading = "open" /\ place > Len(text)
    /\ reading' = IF components = 0 THEN "rejected" ELSE "accepted"
    /\ UNCHANGED <<text, place, nextUnit, total, components>>

-------------------------------------------------------------------------------
DurationInit ==
    /\ text \in Texts
    /\ place = 0 /\ nextUnit = 1 /\ total = 0 /\ components = 0
    /\ reading = "open"

DurationDone == reading # "open" /\ UNCHANGED durationVars

DurationNext == ReadDate \/ EnterTime \/ ReadComponent \/ EndDuration \/ DurationDone
===============================================================================
