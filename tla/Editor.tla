--------------------------------- MODULE Editor ---------------------------------
(****************************************************************************)
(* What a text field promises to the one who types: a text with a cursor in *)
(* it, that is, what stands before the cursor and what stands after it.     *)
(****************************************************************************)
EXTENDS Naturals, Sequences

CONSTANTS Chars,     \* characters that can be typed
          Texts,     \* texts the program may put into the field
          MaxChars   \* longest text that can be typed, 0 if unlimited

VARIABLES before,     \* what stands before the cursor
          after,      \* what stands after it
          overwrite   \* typing replaces the next character

edVars == <<before, after, overwrite>>

Size == Len(before) + Len(after)

Load(text) ==
    /\ before' = <<>>
    /\ after' = text
    /\ overwrite' = FALSE

Type(c) ==
    /\ before' = Append(before, c)
    /\ IF overwrite /\ after # <<>>
       THEN after' = Tail(after)
       ELSE (MaxChars = 0 \/ Size < MaxChars) /\ UNCHANGED after
    /\ UNCHANGED overwrite

Forward ==
    /\ after # <<>>
    /\ before' = Append(before, Head(after))
    /\ after' = Tail(after)
    /\ UNCHANGED overwrite

Back ==
    /\ before # <<>>
    /\ before' = SubSeq(before, 1, Len(before) - 1)
    /\ after' = <<before[Len(before)]>> \o after
    /\ UNCHANGED overwrite

EraseNext ==
    /\ after # <<>>
    /\ after' = Tail(after)
    /\ UNCHANGED <<before, overwrite>>

ErasePrevious ==
    /\ before # <<>>
    /\ before' = SubSeq(before, 1, Len(before) - 1)
    /\ UNCHANGED <<after, overwrite>>

SwitchMode ==
    /\ overwrite' = ~overwrite
    /\ UNCHANGED <<before, after>>

Init == before = <<>> /\ after = <<>> /\ overwrite = FALSE

Next ==
    \/ \E text \in Texts : Load(text)
    \/ \E c \in Chars : Type(c)
    \/ Forward \/ Back \/ EraseNext \/ ErasePrevious \/ SwitchMode

Spec == Init /\ [][Next]_edVars
=============================================================================
