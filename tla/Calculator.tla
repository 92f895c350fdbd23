----------------------------- MODULE Calculator -----------------------------
(***************************************************************************)
(* The calculator: its view controller, which types into a label and reads *)
(* numbers back from it, and CalculatorManager.  All on the main thread.   *)
(*                                                                         *)
(* The label is abstracted to what Double(text) and floor make of it, a    *)
(* number to how String(number) prints it.                                 *)
(***************************************************************************)
EXTENDS Integers

VARIABLES
    display,        \* displayLabel.text
    isDoneTyping,   \* the next digit starts a new text
    intermediateCalculation,  \* an operation waits for its second operand
    fatal           \* the fatalError that has ended the process, or "none"

vars == <<display, isDoneTyping, intermediateCalculation, fatal>>

\* How String prints a Double: 5.0, 0.5, 1e+16, 5e-05, inf, nan.
Printed == {"point", "fraction", "large", "tiny", "inf", "nan"}

\* Texts that Double accepts: printed ones, and digits without a point.  A text
\* with one point and nothing but zeros behind it is "point".
Number == Printed \cup {"digits"}

\* A single point, and texts with a second point or with digits or a point
\* behind what takes none.
Text == Number \cup {"only a point", "no number"}

\* floor(value) == value
IsInt(text) == text \in {"digits", "point", "large", "inf"}

Init ==
    /\ display = "digits"
    /\ isDoneTyping = TRUE
    /\ intermediateCalculation = FALSE
    /\ fatal = "none"

\* A fatalError ends the process with its message.
Stop(message) == fatal' = message /\ UNCHANGED <<display, isDoneTyping, intermediateCalculation>>

-----------------------------------------------------------------------------
(* numButtonPressed *)

\* The label with one more digit.
WithDigit(text, zero) ==
    CASE text \in {"point", "only a point"} -> IF zero THEN "point" ELSE "fraction"
      [] text \in {"inf", "nan"}            -> "no number"
      [] OTHER                              -> text

DigitPressed(zero) ==
    /\ fatal = "none"
    /\ display' = IF isDoneTyping THEN "digits" ELSE WithDigit(display, zero)
    /\ isDoneTyping' = FALSE
    /\ UNCHANGED <<intermediateCalculation, fatal>>

\* The label with a point behind it: refused unless its value is whole.
WithPoint(text) ==
    CASE ~IsInt(text)     -> text
      [] text = "digits"  -> "point"
      [] OTHER            -> "no number"

PointPressed ==
    /\ fatal = "none"
    /\ IF ~isDoneTyping /\ display \notin Number
       THEN Stop("Unable to convert num to double")
       ELSE /\ display' = IF isDoneTyping THEN "only a point" ELSE WithPoint(display)
            /\ isDoneTyping' = FALSE
            /\ UNCHANGED <<intermediateCalculation, fatal>>

-----------------------------------------------------------------------------
(* calcButtonPressed: setNumber reads the display, calculate may give a    *)
(* result to show, and isDoneTyping is toggled.                            *)

\* The texts that may be shown.  Which numbers an operation is applied to is
\* left open: its result may print as anything.
Results(symbol) ==
    CASE symbol = "AC"   -> {"point"}
      [] symbol = "+/-"  -> IF display = "digits" THEN {"point", "large", "inf"} ELSE {display}
      [] symbol = "%"    -> IF display \in {"inf", "nan"} THEN {display}
                            ELSE Printed \ {"nan"}
      [] symbol = "=" /\ intermediateCalculation -> Printed
      [] OTHER           -> {display}

CalcButtonPressed(symbol) ==
    /\ fatal = "none"
    /\ IF display \notin Number
       THEN Stop("Unable to covert display to double")
       ELSE /\ display' \in Results(symbol)
            /\ isDoneTyping' = ~isDoneTyping
            /\ intermediateCalculation' = (intermediateCalculation \/ symbol = "operator")
            /\ UNCHANGED fatal

Next ==
    \/ \E zero \in BOOLEAN : DigitPressed(zero)
    \/ PointPressed
    \/ \E symbol \in {"AC", "+/-", "%", "=", "operator"} : CalcButtonPressed(symbol)

Spec == Init /\ [][Next]_vars

-----------------------------------------------------------------------------

\* The display can be read as a number whenever the calculator does so: the
\* fatalError of displayValue, under the comment that the display will always
\* contain text, is never reached.  It is: nothing refuses a point that is
\* tapped first, or behind a whole number that has one.
DisplayIsNumber == fatal # "Unable to covert display to double"
=============================================================================
