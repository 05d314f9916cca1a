--------------------------------- MODULE Inputs ---------------------------------
(****************************************************************************)
(* The two inputs of a form: a TextInput (src/src/client/ui/textinput.cpp), *)
(* which keeps its position in the text twice, as an iterator and as a      *)
(* number, and a SelectInput (selectinput.cpp), which keeps an iterator     *)
(* into its options.  An iterator is its distance from begin().             *)
(****************************************************************************)
EXTENDS Integers, Sequences, FiniteSets, SequencesExt

CONSTANTS
    Chars,       \* characters that a key stands for
    Texts,       \* texts set by set_from_json_value
    MaxChars,    \* max_chars, 0 if unlimited
    MaxText,     \* bound: length of a text that is typed
    OptionLists, \* lists of option values given to set_options
    Values       \* strings and booleans given to SelectInput::set_from_json_value

ASSUME MaxCharsAssumption == MaxChars \in Nat
ASSUME MaxTextAssumption == MaxText \in Nat
ASSUME TextsAssumption == Texts \subseteq Seq(Chars)
ASSUME OptionListsAssumption == OptionLists \subseteq Seq(Values)

VARIABLES
    edittext, iter, caret, insert,   \* the TextInput
    options, selected                \* the SelectInput; selected is its iter

textVars == <<edittext, iter, caret, insert>>
selectVars == <<options, selected>>
vars == <<textVars, selectVars>>

Init ==
    /\ edittext = <<>> /\ iter = 0 /\ caret = 0 /\ insert = TRUE
    /\ options = <<>> /\ selected = 0

-----------------------------------------------------------------------------
(* TextInput                                                                *)

\* set_from_json_value with a string: reset, then the text.
SetTextKeepingCaret(text) ==
    /\ edittext' = text
    /\ iter' = 0
    /\ insert' = TRUE
    /\ UNCHANGED caret
SetText(text) ==
    /\ edittext' = text
    /\ iter' = 0 /\ caret' = 0
    /\ insert' = TRUE

HasRoom == MaxChars = 0 \/ Len(edittext) < MaxChars

\* process_key with a letter, a digit, a space or a full stop.
TypeChar(c) ==
    /\ \/ /\ insert \/ iter = Len(edittext)
          /\ HasRoom /\ Len(edittext) < MaxText
          /\ edittext' = InsertAt(edittext, iter + 1, c)
       \/ /\ ~insert /\ iter # Len(edittext)
          /\ edittext' = ReplaceAt(edittext, caret + 1, c)
    /\ caret' = caret + 1 /\ iter' = iter + 1
    /\ UNCHANGED insert

Delete ==
    /\ iter # Len(edittext)
    /\ edittext' = RemoveAt(edittext, iter + 1)
    /\ UNCHANGED <<iter, caret, insert>>

\* What backspace erases once it has moved back.
ErasedAfterCaret(at) == at + 2
Erased(at) == at + 1

Backspace ==
    /\ iter # 0
    /\ caret' = caret - 1 /\ iter' = iter - 1
    /\ edittext' = RemoveAt(edittext, Erased(iter'))
    /\ UNCHANGED insert

MayGoRight == iter # Len(edittext)

Right ==
    /\ MayGoRight
    /\ caret' = caret + 1 /\ iter' = iter + 1
    /\ UNCHANGED <<edittext, insert>>

Left ==
    /\ iter # 0
    /\ caret' = caret - 1 /\ iter' = iter - 1
    /\ UNCHANGED <<edittext, insert>>

Insert ==
    /\ insert' = ~insert
    /\ UNCHANGED <<edittext, iter, caret>>

TextKey ==
    \/ \E c \in Chars : TypeChar(c)
    \/ Delete \/ Backspace \/ Right \/ Left \/ Insert

-----------------------------------------------------------------------------
(* SelectInput                                                              *)

SetOptions(opts) ==
    /\ options' = opts
    /\ selected' = 0

\* The first option with the value v, or end().
FirstWith(v) ==
    LET found == {k \in DOMAIN options : options[k] = v}
    IN  IF found = {} THEN Len(options) ELSE Min(found) - 1

SetValue(v) ==
    /\ selected' = FirstWith(v)
    /\ UNCHANGED options

RightOfWithoutWrap(at) == at + 1
RightOf(at) == IF at < Len(options) - 1 THEN at + 1 ELSE 0
LeftOf(at) == IF at > 0 THEN at - 1 ELSE Len(options) - 1

\* process_key: nothing happens without options.
SelectKey ==
    /\ options # <<>>
    /\ selected' \in {RightOf(selected), LeftOf(selected)}
    /\ UNCHANGED options

IsSelected == selected \in 0 .. Len(options) - 1

-----------------------------------------------------------------------------
Next ==
    \/ \E text \in Texts : SetText(text) /\ UNCHANGED selectVars
    \/ TextKey /\ UNCHANGED selectVars
    \/ \E opts \in OptionLists : SetOptions(opts) /\ UNCHANGED textVars
    \/ \E v \in Values : SetValue(v) /\ UNCHANGED textVars
    \/ SelectKey /\ UNCHANGED textVars

Spec == Init /\ [][Next]_vars

-----------------------------------------------------------------------------
(* Properties                                                               *)

\* The type invariant; no iterator leaves its text or its options (end() is in).
TypeOK ==
    /\ edittext \in Seq(Chars)
    /\ iter \in 0 .. Len(edittext)
    /\ caret \in Int
    /\ insert \in BOOLEAN
    /\ options \in Seq(Values)
    /\ selected \in 0 .. Len(options)

\* The two positions of a TextInput never part, although typing, erasing, moving
\* and loading change them one by one and replace uses the one, insert the other.
CaretIsIter == caret = iter

\* An arrow always ends on an option, also after a value that is no option has
\* left the iterator at end(): get_value reads an option after any key.
KeysEndOnOption == [][SelectKey => IsSelected']_vars

\* The TextInput is a text with one cursor in it.
E == INSTANCE Editor WITH
        before <- SubSeq(edittext, 1, caret),
        after <- SubSeq(edittext, iter + 1, Len(edittext)),
        overwrite <- ~insert
RefinesEditor == E!Spec
=============================================================================
