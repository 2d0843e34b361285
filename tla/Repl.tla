--------------------------------- MODULE Repl ---------------------------------
(***************************************************************************)
(* runRepl: takes lines from the editor or, without a terminal, from the   *)
(* input, handles commands, collects lines until they are a complete text, *)
(* adding a semicolon when that completes it, and has the session run it.  *)
(* Whether a text is complete is the parser's verdict: here, words between *)
(* braces, with a semicolon at the end of those outside.                   *)
(***************************************************************************)
EXTENDS ReplEditor

CONSTANTS
    InputLines  \* what comes line by line without a terminal

(* A line is a sequence, of whatever was typed.                            *)
ASSUME InputAssumption == \A line \in InputLines : line \in Seq({line[i] : i \in DOMAIN line})

Semicolon == ";"
CommandTable == <<<<":", "help">>, <<":", "history">>, <<":", "reset">>, <<":", "cancel">>,
                  <<":", "clear">>, <<":", "quit">>>>
Informative == {<<":", "help">>, <<":", "history">>, <<":", "clear">>}

VARIABLES
    repl    \* [interactive, pending, entered, ran, session, open]: pending is
            \* what was collected, entered what may be meant by the lines
            \* since the last boundary, ran the last source and the texts
            \* it may stand for

replVars == <<editorVars, repl>>

ReplInit(playing, terminals) ==
    /\ EditorInit
    /\ \E i \in terminals :
          repl = [interactive |-> i, pending |-> <<>>, entered |-> {<<>>},
                  ran |-> [source |-> <<>>, of |-> {<<>>}], session |-> 1, open |-> playing]

Open(text) == Len(SelectSeq(text, LAMBDA w : w = "{"))
Closed(text) == Len(SelectSeq(text, LAMBDA w : w = "}"))
CodeWords(text) == SelectSeq(text, LAMBDA w : w # Newline)
(* parsed.incomplete: more may follow.                                     *)
Incomplete(text) ==
    \/ Open(text) > Closed(text)
    \/ CodeWords(text) # <<>> /\ Last(CodeWords(text)) \notin {Semicolon, "}"}

Remember(line) ==
    IF line # <<>> /\ (history = <<>> \/ Last(history) # line) THEN Append(history, line) ELSE history

(* A line is added; when that is no complete text, a semicolon before the  *)
(* newline is tried.                                                       *)
Collected(pending, line) ==
    LET text == pending \o line \o <<Newline>>
        completed == pending \o line \o <<Semicolon, Newline>>
    IN  IF Incomplete(text) /\ ~Incomplete(completed) THEN completed ELSE text

(* The loop body for one line, which stands for one of the texts meant.    *)
Evaluate(line, meant) ==
    /\ history' = Remember(line)
    /\ CASE line = <<":", "quit">> -> repl' = [repl EXCEPT !.open = FALSE]
         [] line \in Informative -> UNCHANGED repl
         [] line = <<":", "cancel">> -> repl' = [repl EXCEPT !.pending = <<>>, !.entered = {<<>>}]
         [] line = <<":", "reset">> /\ repl.pending = <<>> -> repl' = [repl EXCEPT !.session = 3 - @]
         [] OTHER ->
              LET pending == Collected(repl.pending, line)
                  entered == {e \o m \o <<Newline>> : e \in repl.entered, m \in meant}
              IN  repl' = IF Incomplete(pending)
                          THEN [repl EXCEPT !.pending = pending, !.entered = entered]
                          ELSE [repl EXCEPT !.pending = <<>>, !.entered = {<<>>},
                                            !.ran = [source |-> pending, of |-> entered]]

Reopen == editor' = Fresh(history') /\ intended' = {<<>>} /\ delimiter' = -1

(* read returns: what was accepted; ":cancel" after Escape; a command F1   *)
(* or Ctrl-L have put there; nothing at the end of the input.              *)
Line ==
    CASE editor.outcome = "accepted" -> editor.content
      [] editor.outcome = "cancel" -> <<":", "cancel">>
      [] editor.outcome = "help" -> <<":", "help">>
      [] editor.outcome = "clear" -> <<":", "clear">>

Edited ==
    /\ repl.open /\ editor.outcome \notin {"editing", "end"}
    /\ Evaluate(Line, IF editor.outcome = "accepted" THEN intended ELSE {Line})
    /\ Reopen
    /\ UNCHANGED keys

(* An end of input in the middle of a text leaves it.                      *)
EndOfInput ==
    /\ repl.open
    /\ IF repl.interactive THEN editor.outcome = "end" ELSE TRUE
    /\ repl' = [repl EXCEPT !.open = FALSE]
    /\ UNCHANGED editorVars

ReadLine ==
    /\ repl.open /\ ~repl.interactive
    /\ keys < MaxKeys /\ keys' = keys + 1
    /\ \E line \in InputLines : Evaluate(line, {line})
    /\ Reopen

Key ==
    \/ \E w \in Words : Type(w)
    \/ Enter \/ Backspace \/ Move \/ Search \/ Erase \/ Complete(CommandTable)
    \/ \E older \in BOOLEAN : SelectHistory(older)
    \/ \E o \in {"end", "cancel", "help", "clear"} : Leave(o)

ReplNext ==
    \/ repl.open /\ repl.interactive /\ (Key \/ Quiet \/ Post \/ Submit) /\ UNCHANGED repl
    \/ Edited \/ EndOfInput \/ ReadLine

(* The session runs what was typed since the last text that ran: every     *)
(* line of it, in order, with the newlines of a paste and without those of *)
(* Enters that only submitted a line, and at most a semicolon more, before *)
(* its last newline.  One case differs: when an Enter is followed, before  *)
(* its line is submitted, by a key with which the editor sets the text     *)
(* (history, search, erasing, completion), what is submitted is the text   *)
(* then shown, or that less the newline that stands where the Enter had    *)
(* put its own.                                                            *)
RunAsTyped ==
    \E typed \in repl.ran.of :
        repl.ran.source = typed \/ repl.ran.source = Front(typed) \o <<Semicolon, Newline>>
=============================================================================
