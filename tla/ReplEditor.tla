------------------------------ MODULE ReplEditor ------------------------------
(***************************************************************************)
(* ReplLineEditor::read: a text input whose Enter inserts a newline and    *)
(* asks for submission; a worker thread posts the submission once nothing  *)
(* was typed for 80 ms, so that a pasted block of lines is submitted as    *)
(* one, and the newline of the last Enter is taken out again.              *)
(* Text is a sequence of words; a cursor is a position between words.      *)
(* The input component is FTXUI's, modelled by what its callbacks see.     *)
(***************************************************************************)
EXTENDS Naturals, Integers, Sequences, SequencesExt

CONSTANTS
    Words,      \* what can be typed
    Newline,
    MaxWords,   \* bound: the length of the content
    MaxKeys     \* bound: the keys pressed in one process

VARIABLES
    editor,     \* the state of one call of read
    history,    \* the lines of the session
    intended,   \* the texts that may be submitted for what is shown
    delimiter,  \* where the Enter that no typing followed put its newline, or -1
    keys

editorVars == <<editor, history, intended, delimiter, keys>>

Fresh(lines) ==
    [content |-> <<>>, cursor |-> 0, draft |-> <<>>, index |-> Len(lines),
     requested |-> FALSE, scheduled |-> FALSE, newline |-> -1, quiet |-> TRUE,
     outcome |-> "editing"]

EditorInit ==
    /\ history = <<>>
    /\ editor = Fresh(<<>>)
    /\ intended = {<<>>}
    /\ delimiter = -1
    /\ keys = 0

Press ==
    /\ editor.outcome = "editing"
    /\ keys < MaxKeys
    /\ keys' = keys + 1

(* Mutation: an Enter is remembered although the text went on.             *)
OnChangeKeeping(e) == [e EXCEPT !.quiet = FALSE]

(* on_change: text after an Enter makes its newline part of the text.      *)
OnChange(e) == [e EXCEPT !.newline = -1, !.quiet = FALSE]

(* A word or a newline at the cursor.                                      *)
Inserted(e, word) ==
    OnChange([e EXCEPT !.content = InsertAt(@, e.cursor + 1, word), !.cursor = @ + 1])

Type(word) ==
    /\ Press
    /\ Len(editor.content) < MaxWords
    /\ editor' = Inserted(editor, word)
    /\ intended' = {editor'.content}
    /\ delimiter' = -1
    /\ UNCHANGED history

(* The input inserts a newline and calls on_change, then on_enter: what is *)
(* meant is the text without it.                                           *)
Enter ==
    /\ Press
    /\ Len(editor.content) < MaxWords
    /\ editor' = [Inserted(editor, Newline) EXCEPT !.newline = editor.cursor, !.requested = TRUE]
    /\ intended' = {editor.content}
    /\ delimiter' = editor.cursor
    /\ UNCHANGED history

Backspace ==
    /\ Press
    /\ editor.cursor > 0
    /\ editor' = OnChange([editor EXCEPT !.content = RemoveAt(@, editor.cursor), !.cursor = @ - 1])
    /\ intended' = {editor'.content}
    /\ delimiter' = -1
    /\ UNCHANGED history

(* Arrows, Home, End, Ctrl-A, Ctrl-E and the mouse only move the cursor.   *)
Move ==
    /\ Press
    /\ \E c \in 0 .. Len(editor.content) : editor' = [editor EXCEPT !.cursor = c]
    /\ UNCHANGED <<history, intended, delimiter>>

(* The keys below set the content without on_change: the quiet period goes *)
(* on, and the position of an Enter stays though the text is another.  A   *)
(* newline that happens to be there is lost, which nobody asked for.       *)
Replace(e, content) ==
    /\ editor' = e
    /\ intended' = {content} \union
           {RemoveAt(content, i) : i \in {j \in DOMAIN content : /\ j = delimiter + 1
                                                               /\ content[j] = Newline}}
    /\ UNCHANGED <<history, delimiter>>

Shown(e, content) == [e EXCEPT !.content = content, !.cursor = Len(content)]

(* Ctrl-P and Ctrl-N, and the arrows on a single line.                     *)
SelectHistory(older) ==
    /\ Press
    /\ history # <<>>
    /\ LET draft == IF editor.index = Len(history) THEN editor.content ELSE editor.draft
           index == IF older THEN (IF editor.index > 0 THEN editor.index - 1 ELSE 0)
                    ELSE (IF editor.index < Len(history) THEN editor.index + 1 ELSE editor.index)
           content == IF index = Len(history) THEN draft ELSE history[index + 1]
       IN  Replace([Shown(editor, content) EXCEPT !.draft = draft, !.index = index], content)

Occurs(part, whole) ==
    \E i \in 1 .. Len(whole) - Len(part) + 1 : SubSeq(whole, i, i + Len(part) - 1) = part

(* Ctrl-R: the last entry before the current one that holds the content.   *)
Search ==
    /\ Press
    /\ \E i \in 1 .. editor.index :
          /\ Occurs(editor.content, history[i])
          /\ \A j \in i + 1 .. editor.index : ~Occurs(editor.content, history[j])
          /\ Replace([Shown(editor, history[i]) EXCEPT !.index = i - 1], history[i])

(* Ctrl-U, Ctrl-K and Ctrl-W erase before the cursor, after it, or the     *)
(* word before it.                                                         *)
Erase ==
    /\ Press
    /\ \E first \in 1 .. Len(editor.content), last \in 1 .. Len(editor.content) :
          /\ \/ first = 1 /\ last = editor.cursor
             \/ first = editor.cursor + 1 /\ last = Len(editor.content)
             \/ first = editor.cursor /\ last = editor.cursor
          /\ LET content == SubSeq(editor.content, 1, first - 1)
                              \o SubSeq(editor.content, last + 1, Len(editor.content))
             IN  Replace([editor EXCEPT !.content = content, !.cursor = first - 1], content)

(* Tab completes a command: the first of the table that goes on like the   *)
(* content.                                                                *)
Complete(table) ==
    /\ Press
    /\ Head(editor.content \o <<Newline>>) = ":"
    /\ \E i \in DOMAIN table :
          /\ IsStrictPrefix(editor.content, table[i])
          /\ \A j \in 1 .. i - 1 : ~IsStrictPrefix(editor.content, table[j])
          /\ Replace(Shown(editor, table[i]), table[i])

(* Escape; Ctrl-D on nothing but white space; F1 and Ctrl-L, which put a   *)
(* command in the place of what was typed.                                 *)
Leave(outcome) ==
    /\ Press
    /\ (outcome = "end") => (\A i \in DOMAIN editor.content : editor.content[i] = Newline)
    /\ editor' = [editor EXCEPT !.outcome = outcome]
    /\ UNCHANGED <<history, intended, delimiter>>

(* 80 ms pass without a key that counts.                                   *)
Quiet ==
    /\ editor.outcome = "editing" /\ ~editor.quiet
    /\ editor' = [editor EXCEPT !.quiet = TRUE]
    /\ UNCHANGED <<history, intended, delimiter, keys>>

(* The worker posts the submission, once at a time.                        *)
Post ==
    /\ editor.outcome = "editing"
    /\ editor.requested /\ ~editor.scheduled /\ editor.quiet
    /\ editor' = [editor EXCEPT !.scheduled = TRUE]
    /\ UNCHANGED <<history, intended, delimiter, keys>>

WithoutNewline(e) ==
    IF e.newline >= 0 /\ e.newline < Len(e.content) /\ e.content[e.newline + 1] = Newline
    THEN RemoveAt(e.content, e.newline + 1) ELSE e.content

(* The posted submission runs in the input's thread, after keys that came  *)
(* before it: without quiet it gives up, and the worker tries again.       *)
Submit ==
    /\ editor.outcome = "editing" /\ editor.scheduled
    /\ editor' = IF editor.quiet
                 THEN [editor EXCEPT !.content = WithoutNewline(editor), !.outcome = "accepted"]
                 ELSE [editor EXCEPT !.scheduled = FALSE]
    /\ UNCHANGED <<history, intended, delimiter, keys>>
=============================================================================
