------------------------------- MODULE Keypad -------------------------------
(***************************************************************************)
(* The number keypad: a text that buttons build up from numbers,           *)
(* operators, brackets and functions, and that Enter evaluates or accepts. *)
(*                                                                         *)
(* The text is the sequence of its tokens; a number is kept with its       *)
(* characters, since one of them is erased at a time.  The six functions   *)
(* are one token "f", which is also an opening bracket; an inverse         *)
(* function is read as a function followed by a bracket.  Values are       *)
(* trees, so that two ways to evaluate a text can be compared.  Results    *)
(* that are no number (a division by zero) are left out, and so is typing  *)
(* into the text field.                                                    *)
(***************************************************************************)
EXTENDS Integers, Sequences, FiniteSets, SequencesExt

CONSTANTS
  KeypadDigits,     \* the digits that are pressed
  KeypadOperators,  \* the operators that are pressed
  MaxText,          \* bound on the characters and tokens of the text
  MaxOpen           \* bound on the brackets that can be closed

ASSUME KeypadAssumption ==
  /\ KeypadDigits \subseteq {"0", "9"}
  /\ KeypadOperators \subseteq {"+", "-", "*", "/", "^"}
  /\ MaxText \in Nat \ {0} /\ MaxOpen \in Nat

VARIABLES
  visible,      \* the keypad is open
  editBuffer,   \* the text
  parentheses,  \* brackets that can still be closed
  firstUpdate,  \* the next digit replaces the text
  altMode, invMode,
  increment,    \* exponent of the step of the edited property, or Unset
  accepted,     \* the text that was accepted last
  outOfBounds   \* memory outside the text was used

keypadVars == <<visible, editBuffer, parentheses, firstUpdate, altMode, invMode,
                increment, accepted, outOfBounds>>

Unset == 99

Symbol(s) == [type |-> s, text |-> <<s>>]
Number(s) == [type |-> "const", text |-> s]
NoToken == [type |-> "none", text |-> <<>>]

-----------------------------------------------------------------------------
(* Tokens.                                                                 *)

last_token(b) == IF b = <<>> THEN NoToken ELSE b[Len(b)]
is_popen(t) == t.type \in {"(", "f"}
is_operator(t) == t.type \in {"+", "-", "*", "/", "^", "u", "f"}
is_valid(t) == t # NoToken

\* One number.  After a sign, only the first character of the number is skipped.
only_token(b) ==
  \/ Len(b) = 1
  \/ /\ Len(b) = 2 /\ b[1].type = "u" /\ b[2].type = "const"
     /\ \A k \in 2..Len(b[2].text) : b[2].text[k] = "e"

-----------------------------------------------------------------------------
(* The evaluation, by operator precedence on a stack of terms and values.  *)

Class(type) ==
  CASE type = "^" -> 1 [] type = "u" -> 2 [] type \in {"*", "/"} -> 3
    [] type \in {"+", "-"} -> 4 [] type \in {"(", "f"} -> 5 [] type = ")" -> 6
    [] type = "const" -> 7 [] type = "end" -> 8

precedence_table ==
  <<<<"S", "S", "R", "R", "S", "R", "S", "R">>,    \* ^
    <<"R", "X", "R", "R", "S", "R", "S", "R">>,    \* u
    <<"S", "S", "R", "R", "S", "R", "S", "R">>,    \* * /
    <<"S", "S", "S", "R", "S", "R", "S", "R">>,    \* + -
    <<"S", "S", "S", "S", "S", "E", "S", "X">>,    \* f (
    <<"R", "X", "R", "R", "X", "R", "X", "R">>,    \* )
    <<"S", "S", "S", "S", "S", "X", "S", "A">>>>   \* end

\* The row of the end is the seventh, that of numbers does not exist.
GetAction(stack, incoming) ==
  precedence_table[IF stack = "end" THEN 7 ELSE Class(stack)][Class(incoming)]

Term(type) == [type |-> type, value |-> <<>>]
Value(v) == [type |-> "expr", value |-> v]

\* The last term of the stack.
last_term(context) ==
  CHOOSE k \in DOMAIN context :
    /\ context[k].type # "expr"
    /\ \A l \in k + 1..Len(context) : context[l].type = "expr"

Fault == <<>>

\* The stack with the elements that the code takes for operands replaced by a
\* value; Fault if they are none.
Replaced(context, n, operands, v) ==
  IF Len(context) > n /\ \A k \in operands : context[Len(context) - k].type = "expr"
  THEN SubSeq(context, 1, Len(context) - n) \o <<Value(v)>> ELSE Fault

reduce(context) ==
  LET type == context[last_term(context)].type
      Operand(k) == context[Len(context) - k].value
  IN CASE type = "u" -> Replaced(context, 2, {0}, <<"neg", Operand(0)>>)
       [] type = ")" ->
            LET open == SubSeq(context, 1, Len(context) - 1)
                prev == last_term(open)
                v == open[Len(open)].value
            IN IF prev # Len(open) - 1 THEN Fault
               ELSE IF open[prev].type = "f" THEN Replaced(open, 2, {0}, <<"f", v>>)
               ELSE IF open[prev - 1].type = "u" THEN Replaced(open, 3, {0}, <<"neg", v>>)
               ELSE Replaced(open, 2, {0}, v)
       [] OTHER -> Replaced(context, 3, {0, 2}, <<type, Operand(2), Operand(0)>>)

RECURSIVE Run(_, _)
Run(context, rest) ==
  LET in == IF rest = <<>> THEN Symbol("end") ELSE rest[1]
      action == GetAction(context[last_term(context)].type, in.type)
  IN CASE action \in {"S", "E"} ->
            Run(Append(context, IF in.type = "const" THEN Value(<<"num", in.text>>)
                                ELSE Term(in.type)), Tail(rest))
       [] action = "R" ->
            LET c == reduce(context) IN IF c = Fault THEN {Fault} ELSE Run(c, rest)
       [] action = "X" -> {}
       [] action = "A" -> {context[Len(context)].value}

\* The value of the text: none, one, or Fault.
evaluate(b) == Run(<<Term("end")>>, b)

-----------------------------------------------------------------------------
(* The step of the increment buttons, as a power of ten.                   *)

Characters(b) == FlattenSeq([k \in DOMAIN b |->
                   IF b[k].type \in {"+", "-", "*", "/", "^"}
                   THEN <<" ", b[k].type, " ">> ELSE b[k].text])

computeIncrement(s) ==
  LET dots == {k \in DOMAIN s : s[k] = "."}
      dot == CHOOSE k \in dots : \A l \in dots : k <= l
      nonZero == {k \in DOMAIN s : s[k] # "0"}
      first == CHOOSE k \in nonZero : \A l \in nonZero : k <= l
  IN IF dots # {} THEN -(Len(s) - dot)
     ELSE IF nonZero = {} THEN 0 ELSE Len(s) - first

-----------------------------------------------------------------------------
(* The keys.                                                               *)

Functions == {"f", "inverse"}

PortraitKeys(alt, inv) ==
  KeypadDigits \cup KeypadOperators
    \cup {"Escape", "Alt_2nd", "Backspace", "AC", "Alt_Inv", "Rcp", "Sqrt", "(", ")",
          "E_scientific", "Enter", "Sign", "Period"}
    \cup (CASE ~alt /\ ~inv -> {"f"}     \* sin, cos, tan
            [] ~alt /\ inv -> {"inverse"}
            [] OTHER -> Functions)       \* sinh enters "asinh(", and asinh "sinh("

\* The same, and one without a function.
LandscapeKeys(alt, inv) == PortraitKeys(alt, inv) \cup {"NoButton"}

KeypadInit ==
  /\ visible = FALSE /\ editBuffer = <<>> /\ parentheses = 0 /\ firstUpdate = TRUE
  /\ altMode = FALSE /\ invMode = FALSE
  /\ increment = Unset /\ accepted = <<>> /\ outOfBounds = FALSE

\* Another block is selected, whose properties have no steps yet (clearIfNewBlock),
\* and a click on one of its numbers opens the keypad with its value.
OpenKeypad ==
  /\ ~visible /\ visible' = TRUE
  /\ \E d \in KeypadDigits : \E sign \in {<<>>, <<Symbol("u")>>} :
       editBuffer' = sign \o <<Number(<<d>>)>>
  /\ increment' = Unset /\ accepted' = <<>>
  /\ UNCHANGED <<parentheses, firstUpdate, altMode, invMode, outOfBounds>>

\* A key that changed the text.
ChangeText(b) ==
  /\ Len(FlattenSeq([k \in DOMAIN b |-> b[k].text])) <= MaxText
  /\ editBuffer' = b /\ firstUpdate' = FALSE
  /\ UNCHANGED <<visible, increment, accepted>>

last == last_token(editBuffer)
Shorter(n) == SubSeq(editBuffer, 1, Len(editBuffer) - n)
LastNumber(s) == Append(Shorter(1), Number(s))
Kept == UNCHANGED <<parentheses, altMode, invMode, outOfBounds>>

\* A digit starts a number or extends the last one.
Digit(d) ==
  /\ last.type # ")"
  /\ ChangeText(IF firstUpdate THEN <<Number(<<d>>)>>
            ELSE IF last.type = "const" THEN LastNumber(Append(last.text, d))
            ELSE Append(editBuffer, Number(<<d>>)))
  /\ Kept

Period ==
  /\ last.type = "const" /\ "." \notin ToSet(last.text)
  /\ ChangeText(LastNumber(Append(last.text, "."))) /\ Kept

E_scientific ==
  /\ last.type = "const" /\ "." \notin ToSet(last.text)
  /\ ChangeText(LastNumber(Append(last.text, "e"))) /\ Kept

\* The square root or the reciprocal, whose digits are left open, in place of the
\* number.
Computed ==
  /\ last.type = "const"
  /\ \E d \in KeypadDigits : ChangeText(LastNumber(<<d>>)) \/ ChangeText(LastNumber(<<d, ".", d>>))
  /\ Kept

Operator(op) ==
  /\ is_valid(last) /\ ~is_popen(last)
  /\ ChangeText(Append(IF is_operator(last) THEN Shorter(1) ELSE editBuffer, Symbol(op)))
  /\ Kept

OpenBracket(tokens) ==
  /\ is_valid(last) => is_popen(last) \/ is_operator(last)
  /\ ChangeText(editBuffer \o tokens)
  /\ parentheses < MaxOpen /\ parentheses' = parentheses + 1 /\ UNCHANGED <<altMode, invMode, outOfBounds>>

\* Mutant of CloseBracket: an operator before it is accepted.
CloseUnfinished ==
  /\ is_valid(last) /\ ~is_popen(last) /\ parentheses > 0
  /\ ChangeText(Append(editBuffer, Symbol(")")))
  /\ parentheses' = parentheses - 1 /\ UNCHANGED <<altMode, invMode, outOfBounds>>

CloseBracket ==
  /\ is_valid(last) /\ ~is_popen(last) /\ ~is_operator(last) /\ parentheses > 0
  /\ ChangeText(Append(editBuffer, Symbol(")")))
  /\ parentheses' = parentheses - 1 /\ UNCHANGED <<altMode, invMode, outOfBounds>>

\* One character of a number, or a token, with a sign before it unless it is the
\* first.  The last character of an empty text does not exist.
Backspace ==
  LET erased == IF last.type = "const" /\ Len(last.text) > 1
                THEN LastNumber(Front(last.text)) ELSE Shorter(1)
  IN IF editBuffer = <<>> THEN outOfBounds' = TRUE /\ UNCHANGED <<visible, editBuffer,
         parentheses, firstUpdate, altMode, invMode, increment, accepted>>
     ELSE /\ ChangeText(IF Len(editBuffer) > 1 /\ last_token(erased).type = "u"
                    THEN Front(erased) ELSE erased)
          /\ Kept

\* The brackets that are open are not forgotten.
AC == ChangeText(<<>>) /\ Kept

SecondMode ==
  /\ ChangeText(editBuffer)
  /\ altMode' = ~altMode /\ UNCHANGED <<parentheses, invMode, outOfBounds>>

InverseMode ==
  /\ ChangeText(editBuffer)
  /\ invMode' = ~invMode /\ UNCHANGED <<parentheses, altMode, outOfBounds>>

\* The sign before the token at k appears or disappears.
ToggleSign(k) ==
  ChangeText(IF k > 1 /\ editBuffer[k - 1].type = "u" THEN RemoveAt(editBuffer, k - 1)
         ELSE InsertAt(editBuffer, k, Symbol("u")))

\* After a bracket, the opening one before which the sign belongs is searched from
\* the start of the text, where none is open: it is not found.
Sign ==
  LET Depth(k) == Cardinality({i \in 1..k : editBuffer[i].type = ")"})
                    - Cardinality({i \in 1..k : is_popen(editBuffer[i])})
      found == {k \in DOMAIN editBuffer : is_popen(editBuffer[k]) /\ Depth(k) = 0}
  IN \/ last.type = "const" /\ ToggleSign(Len(editBuffer)) /\ Kept
     \/ /\ last.type = ")"
        /\ IF found = {}
           THEN outOfBounds' = TRUE /\ UNCHANGED <<visible, editBuffer, parentheses,
                  firstUpdate, altMode, invMode, increment, accepted>>
           ELSE ToggleSign(CHOOSE k \in found : \A l \in found : k <= l) /\ Kept

\* The keypad closes; the step is that of the text, whether it is taken or not.
CloseKeypad ==
  /\ visible' = FALSE /\ firstUpdate' = TRUE
  /\ increment' = computeIncrement(Characters(editBuffer))
  /\ UNCHANGED <<editBuffer, parentheses, altMode, invMode, outOfBounds>>

Enter ==
  /\ last.type \in {"const", ")"}
  /\ IF only_token(editBuffer) THEN CloseKeypad /\ accepted' = editBuffer
     ELSE /\ evaluate(editBuffer) # {}
          /\ \E d \in KeypadDigits : \E sign \in {<<>>, <<Symbol("u")>>} :
               ChangeText(sign \o <<Number(<<d>>)>>)
          /\ Kept

Escape == CloseKeypad /\ accepted' = <<>>

processKeypadLogic(key) ==
  \/ key \in KeypadDigits /\ Digit(key)
  \/ key \in KeypadOperators /\ Operator(key)
  \/ key = "(" /\ OpenBracket(<<Symbol("(")>>)
  \/ key = "f" /\ OpenBracket(<<Symbol("f")>>)
  \/ key = "inverse" /\ OpenBracket(<<Symbol("f"), Symbol("(")>>)
  \/ key = ")" /\ CloseBracket
  \/ key = "Period" /\ Period
  \/ key = "E_scientific" /\ E_scientific
  \/ key \in {"Sqrt", "Rcp"} /\ Computed
  \/ key = "Sign" /\ Sign
  \/ key = "Backspace" /\ Backspace
  \/ key = "AC" /\ AC
  \/ key = "Alt_2nd" /\ SecondMode
  \/ key = "Alt_Inv" /\ InverseMode
  \/ key = "Enter" /\ Enter
  \/ key = "Escape" /\ Escape

KeypadNext ==
  /\ ~outOfBounds
  /\ \/ OpenKeypad
     \/ /\ visible
        /\ \E key \in LandscapeKeys(altMode, invMode) : processKeypadLogic(key)

KeypadSpec == KeypadInit /\ [][KeypadNext]_keypadVars

-----------------------------------------------------------------------------
(* Properties.                                                             *)

KeypadTypeOK ==
  /\ \A k \in DOMAIN editBuffer :
       editBuffer[k].type \in {"const", "u", "f", "(", ")"} \cup KeypadOperators
  /\ parentheses \in 0..MaxOpen /\ increment \in -(3 * MaxText)..3 * MaxText \cup {Unset}
  /\ {visible, firstUpdate, altMode, invMode, outOfBounds} \subseteq BOOLEAN

\* What a text means by the usual rules: sums of products of powers, from the left
\* except for powers, a sign before everything else.
RECURSIVE Meaning(_)
Meaning(t) ==
  LET Depth(k) == Cardinality({i \in 1..k : is_popen(t[i])})
                    - Cardinality({i \in 1..k : t[i].type = ")"})
      Outside(types) == {k \in DOMAIN t : t[k].type \in types /\ Depth(k) = 0}
      SplitAt(k) == {<<t[k].type, l, r>> : l \in Meaning(SubSeq(t, 1, k - 1)),
                                         r \in Meaning(SubSeq(t, k + 1, Len(t)))}
      sums == Outside({"+", "-"})
      products == Outside({"*", "/"})
      powers == Outside({"^"})
      Leftmost(K) == CHOOSE k \in K : \A l \in K : k <= l
      Rightmost(K) == CHOOSE k \in K : \A l \in K : l <= k
  IN IF sums # {} THEN SplitAt(Rightmost(sums))
     ELSE IF products # {} THEN SplitAt(Rightmost(products))
     ELSE IF powers # {} THEN SplitAt(Leftmost(powers))
     ELSE IF t = <<>> THEN {}
     ELSE IF t[1].type = "u" THEN {<<"neg", v>> : v \in Meaning(Tail(t))}
     ELSE IF is_popen(t[1]) /\ t[Len(t)].type = ")"
          THEN LET inside == Meaning(SubSeq(t, 2, Len(t) - 1))
               IN IF t[1].type = "(" THEN inside ELSE {<<"f", v>> : v \in inside}
     ELSE IF Len(t) = 1 /\ t[1].type = "const" THEN {<<"num", t[1].text>>} ELSE {}

\* Enter gives the text that the keys built up the value that it has by the usual
\* rules, without reading past the values on its stack, or it gives none if the
\* brackets do not match, whatever was erased in between (Keypad.hpp:206).
EvaluatesAsWritten ==
  last.type \in {"const", ")"} => evaluate(editBuffer) = Meaning(editBuffer)

\* A step of the increment buttons is not larger than the number that was entered, if
\* that has no sign and no exponent (Keypad.hpp:658).
StepFitsNumber ==
  LET s == Characters(accepted)
      dots == {k \in DOMAIN s : s[k] = "."}
      Place(k) == IF dots = {} THEN Len(s) - k
                  ELSE LET dot == CHOOSE l \in dots : TRUE
                       IN IF k < dot THEN dot - k - 1 ELSE dot - k
      places == {Place(k) : k \in {l \in DOMAIN s : s[l] = "9"}}
  IN accepted # <<>> /\ ToSet(s) \subseteq {"0", "9", "."} /\ places # {}
       => \E p \in places : p >= increment

\* What the keypad makes of the keys is the number that they mean.
KeypadIsSound == EvaluatesAsWritten /\ StepFitsNumber
=============================================================================
