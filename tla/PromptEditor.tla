----------------------------- MODULE PromptEditor -----------------------------
(* The input box of the terminal interface: what a key or a paste does to the *)
(* text, the caret, the undo ring, the walk through earlier prompts and the   *)
(* suggestions for commands (tui/mod.rs, slash.rs), and the rows the box      *)
(* wraps the text into (tui/wrap.rs). Rust keeps the caret as an offset in    *)
(* bytes and panics where it is not between two characters.                   *)
EXTENDS Naturals, FiniteSetsExt, SequencesExt

CONSTANTS Chars,     \* characters the user types or pastes
          Space, Newline, Slash, Backslash, \* four of them
          Bytes,     \* their length in UTF-8
          Cols,      \* the columns they take on the screen
          Commands,  \* names of the slash commands that match them
          Pastes,    \* texts in the clipboard
          Width,     \* columns of the box
          UndoCap,   \* UNDO_HISTORY_CAP
          Typed,     \* bound: the characters the user has keys for
          MaxLen,    \* bound: characters of all the texts that are kept
          MaxPrompts \* bound: prompts ever remembered

ASSUME PromptAssumption ==
  /\ {Space, Newline, Slash, Backslash} \subseteq Chars
  /\ Bytes \in [Chars -> 1 .. 4] /\ Cols \in [Chars -> 0 .. 2] /\ Cols[Space] = 1
  /\ \A c \in {Newline, Slash, Backslash, Space} : Bytes[c] = 1
  /\ Commands \subseteq Seq(Chars) /\ Pastes \subseteq Seq(Chars)
  /\ Typed \subseteq Chars \ {Newline}
  /\ Width \in Nat \ (0 .. 3) /\ UndoCap \in Nat \ {0}

VARIABLES input,      \* the text, as its characters
          cursor,     \* the caret, in bytes
          prompts,    \* prompt_history
          history_idx,\* place in it, 0 for a fresh prompt
          undo,       \* input_undo
          armed,      \* exit_pending, clear_pending
          view,       \* "chat", "overlay" or "gone"
          replying

text == <<input, cursor, prompts, history_idx, undo>>
editor_vars == <<text, armed, view, replying>>

-----------------------------------------------------------------------------
(* Strings                                                                    *)

SumSeq(s) == FoldLeft(LAMBDA n, k : n + k, 0, s)
Length(s) == FoldLeft(LAMBDA n, c : n + Bytes[c], 0, s)
Prefix(s, n) == SubSeq(s, 1, n)
Boundaries(s) == {Length(Prefix(s, n)) : n \in 0 .. Len(s)}

\* The characters that begin before byte b, and the rest.
Before(s, b) == Prefix(s, Cardinality({n \in 1 .. Len(s) : Length(Prefix(s, n - 1)) < b}))
Behind(s, b) == SubSeq(s, Len(Before(s, b)) + 1, Len(s))

\* Mutation of prev_char_boundary: a character is a byte.
prev_byte(s, i) == IF i = 0 THEN 0 ELSE i - 1

prev_char_boundary(s, i) == Max({0} \cup {b \in Boundaries(s) : b < i})
next_char_boundary(s, i) == Min({Length(s)} \cup {b \in Boundaries(s) : b > i})

White == {Space, Newline}

Trim(s) ==
  LET dark == {i \in DOMAIN s : s[i] \notin White}
  IN  IF dark = {} THEN <<>> ELSE SubSeq(s, Min(dark), Max(dark))

-----------------------------------------------------------------------------
(* Geometry of the box                                                        *)

\* Mutation of Wraps: a row is full one column early.
WrapsEarly(col, c) == col + Cols[c] >= Width

\* A character that does not fit begins a new row.
Wraps(col, c) == col + Cols[c] > Width

Wide(row) == FoldLeft(LAMBDA n, d : n + Cols[d], 0, row)

\* input_visual_rows
Rows(s) ==
  LET put(rows, c) ==
        IF c = Newline THEN Append(rows, <<>>)
        ELSE IF Wide(Last(rows)) + Cols[c] > Width THEN Append(rows, <<c>>)
        ELSE Append(Front(rows), Append(Last(rows), c))
  IN FoldLeft(put, <<<<>>>>, s)

\* Mutation of flush_word: the row that is being filled is lost.
flush_word_only(w) ==
  IF Wide(w.row) + Wide(w.word) <= Width
  THEN [w EXCEPT !.row = @ \o w.word, !.word = <<>>]
  ELSE LET pieces == Rows(w.word) IN
       [out |-> w.out \o Front(pieces), row |-> Last(pieces), word |-> <<>>]

\* flush_word: a word goes behind the row, or on one of its own, or in pieces.
flush_word(w) ==
  IF Wide(w.row) + Wide(w.word) <= Width
  THEN [w EXCEPT !.row = @ \o w.word, !.word = <<>>]
  ELSE LET pieces == Rows(w.word) IN
       [out |-> w.out \o (IF w.row = <<>> THEN <<>> ELSE <<w.row>>) \o Front(pieces),
        row |-> Last(pieces), word |-> <<>>]

\* wrap_visual: the rows of a paragraph of the transcript. A space that does not
\* fit, or would begin a row, is dropped.
wrap_visual(s) ==
  LET put(w, c) ==
        IF c # Space THEN [w EXCEPT !.word = Append(@, c)]
        ELSE LET f == flush_word(w) IN
             IF Wide(f.row) + 1 > Width THEN [f EXCEPT !.out = Append(@, f.row), !.row = <<>>]
             ELSE IF f.row # <<>> THEN [f EXCEPT !.row = Append(@, Space)] ELSE f
      end == flush_word(FoldLeft(put, [out |-> <<>>, row |-> <<>>, word |-> <<>>], s))
  IN IF end.row # <<>> \/ end.out = <<>> THEN Append(end.out, end.row) ELSE end.out

\* cursor_visual_pos and visual_row_start are two loops over the characters before
\* the caret with the same tests and the same col; this one keeps the results of
\* both: row, of the first, and start, the offset where it begins, of the second.
\* at is the offset of the next character.
Walk(s, b) ==
  LET step(w, c) ==
        IF c = Newline
        THEN [row |-> w.row + 1, col |-> 0, start |-> w.at + 1, at |-> w.at + 1]
        ELSE IF Wraps(w.col, c)
        THEN [row |-> w.row + 1, col |-> Cols[c], start |-> w.at,
              at |-> w.at + Bytes[c]]
        ELSE [w EXCEPT !.col = @ + Cols[c], !.at = @ + Bytes[c]]
  IN FoldLeft(step, [row |-> 0, col |-> 0, start |-> 0, at |-> 0], Before(s, b))

\* visual_row_end: the row that begins where the caret's does, up to the next
\* newline or wrap.
RowEnd(s, b) ==
  LET start == Walk(s, b).start
      rest == Behind(s, start)
      fits(n) == /\ \A i \in 1 .. n : rest[i] # Newline
                 /\ Wide(Prefix(rest, n)) <= Width
  IN start + Length(Prefix(rest, Max({n \in 0 .. Len(rest) : fits(n)})))

OnFirstRow == Walk(input, cursor).row = 0
OnLastRow == Walk(input, cursor).row + 1 >= Len(Rows(input))

-----------------------------------------------------------------------------
(* slash.rs                                                                   *)

\* suggest: the commands that begin with what follows the slash.
Suggestions ==
  IF input = <<>> \/ Head(input) # Slash \/ Range(input) \cap White # {}
  THEN {}
  ELSE {name \in Commands : IsPrefix(Tail(input), name)}

-----------------------------------------------------------------------------
EditorTypeOK ==
  /\ input \in Seq(Chars) /\ cursor \in Nat
  /\ prompts \in Seq(Seq(Chars)) /\ history_idx \in 0 .. Len(prompts)
  /\ Len(undo) <= UndoCap
  /\ armed \in [exit : BOOLEAN, clear : BOOLEAN]
  /\ view \in {"chat", "overlay", "gone"} /\ replying \in BOOLEAN

EditorInit ==
  /\ input = <<>> /\ cursor = 0
  /\ prompts = <<>> /\ history_idx = 0 /\ undo = <<>>
  /\ armed = [exit |-> FALSE, clear |-> FALSE]
  /\ view = "chat" /\ replying = FALSE

\* push_undo, the oldest snapshot going first.
PushUndo ==
  undo' = Append(IF Len(undo) < UndoCap THEN undo ELSE Tail(undo), <<input, cursor>>)

\* A key without Control disarms the exit; overlays and suggestions see it first.
Plain == view = "chat" /\ armed' = [armed EXCEPT !.exit = FALSE] /\ UNCHANGED view
Unsuggested == Plain /\ Suggestions = {}

BehindBackslash == cursor > 0 /\ Last(Before(input, cursor)) = Backslash

\* The characters of the input, the prompts and the snapshots.
Kept == Len(input) + Len(FlattenSeq(prompts)) + SumSeq([i \in DOMAIN undo |-> Len(undo[i][1])])

Edited(s, b) == input' = s /\ cursor' = b
Replaced(s) == Edited(s, Length(s))

-----------------------------------------------------------------------------
(* Keys                                                                       *)

Type(c) ==
  /\ view = "chat" /\ UNCHANGED view
  /\ armed' = [exit |-> FALSE, clear |-> FALSE]
  /\ PushUndo
  /\ Edited(Before(input, cursor) \o <<c>> \o Behind(input, cursor), cursor + Bytes[c])
  /\ UNCHANGED <<prompts, history_idx, replying>>

\* Shift+Enter; and Enter behind a backslash, which it replaces.
BreakLine ==
  /\ Unsuggested
  /\ PushUndo
  /\ \/ Edited(Before(input, cursor) \o <<Newline>> \o Behind(input, cursor), cursor + 1)
     \/ /\ BehindBackslash
        /\ LET prev == prev_char_boundary(input, cursor) IN
           Edited(Before(input, prev) \o <<Newline>> \o Behind(input, cursor), prev + 1)
  /\ UNCHANGED <<prompts, history_idx, replying>>

Backspace ==
  /\ Plain /\ cursor > 0
  /\ PushUndo
  /\ LET prev == prev_char_boundary(input, cursor) IN
     Edited(Before(input, prev) \o Behind(input, cursor), prev)
  /\ UNCHANGED <<prompts, history_idx, replying>>

Delete ==
  /\ Plain /\ cursor < Length(input)
  /\ PushUndo
  /\ Edited(Before(input, cursor) \o Behind(input, next_char_boundary(input, cursor)),
            cursor)
  /\ UNCHANGED <<prompts, history_idx, replying>>

\* Left, Right, Home, End.
MoveCaret ==
  /\ Plain
  /\ cursor' \in {prev_char_boundary(input, cursor), next_char_boundary(input, cursor),
                  Walk(input, cursor).start, RowEnd(input, cursor)}
  /\ UNCHANGED <<input, prompts, history_idx, undo, replying>>

\* Up on the first row: the prompt before; the oldest one stays.
history_up ==
  /\ Unsuggested /\ OnFirstRow /\ prompts # <<>>
  /\ history_idx' = CASE history_idx = 0 -> Len(prompts)
                      [] history_idx = 1 -> 1
                      [] OTHER -> history_idx - 1
  /\ Replaced(prompts[history_idx'])
  /\ UNCHANGED <<prompts, undo, replying>>

\* Down on the last row: the next prompt, behind the last one an empty text.
history_down ==
  /\ Unsuggested /\ OnLastRow /\ history_idx # 0
  /\ history_idx' = IF history_idx = Len(prompts) THEN 0 ELSE history_idx + 1
  /\ Replaced(IF history_idx' = 0 THEN <<>> ELSE prompts[history_idx'])
  /\ UNCHANGED <<prompts, undo, replying>>

\* Up and Down go round the suggestions, Tab and Enter take the one they lead to.
accept_suggestion ==
  /\ Plain
  /\ \E name \in Suggestions :
       \/ Replaced(<<Slash>> \o name)
       \/ Replaced(<<Slash>> \o name \o <<Space>>) \* it has arguments
  /\ UNCHANGED <<prompts, history_idx, undo, replying>>

Emptied == input' = <<>> /\ cursor' = 0

\* submit: an empty text is dropped, a command is run, which may open an overlay
\* or quit, and any other text is remembered, unless it is the last prompt again.
submit ==
  /\ view = "chat"
  /\ armed' = [armed EXCEPT !.exit = FALSE]
  /\ IF Suggestions # {}
     THEN \E name \in Suggestions : input = <<Slash>> \o name
     ELSE ~BehindBackslash
  /\ Emptied /\ history_idx' = 0
  /\ LET said == Trim(input) IN
     \/ said = <<>> /\ UNCHANGED <<prompts, view, replying>>
     \/ /\ said # <<>> /\ Head(said) = Slash
        /\ view' \in {"chat", "overlay", "gone"}
        /\ UNCHANGED <<prompts, replying>>
     \/ /\ said # <<>> /\ Head(said) # Slash
        /\ IF prompts # <<>> /\ Last(prompts) = said THEN UNCHANGED prompts
           ELSE Len(prompts) < MaxPrompts /\ prompts' = Append(prompts, said)
        /\ replying' \in {TRUE, replying}
        /\ UNCHANGED view
  /\ UNCHANGED <<undo>>

\* Esc: drops a command that is being typed, stops the reply, or clears the text
\* when pressed twice in a row.
Escape ==
  /\ view = "chat" /\ UNCHANGED <<view, prompts>>
  /\ CASE Suggestions # {} ->
            /\ Emptied /\ armed' = [armed EXCEPT !.exit = FALSE]
            /\ UNCHANGED <<history_idx, undo, replying>>
       [] Suggestions = {} /\ replying ->
            /\ replying' = FALSE /\ armed' = [exit |-> FALSE, clear |-> FALSE]
            /\ UNCHANGED <<input, cursor, history_idx, undo>>
       [] Suggestions = {} /\ ~replying /\ input # <<>> /\ ~armed.clear ->
            /\ armed' = [exit |-> FALSE, clear |-> TRUE]
            /\ UNCHANGED <<input, cursor, history_idx, undo, replying>>
       [] OTHER ->
            /\ input # <<>>
            /\ PushUndo /\ Emptied /\ history_idx' = 0
            /\ armed' = [exit |-> FALSE, clear |-> FALSE]
            /\ UNCHANGED replying

\* Ctrl+C: stops the reply, leaves the overlay or clears the text, and quits when
\* pressed twice.
Interrupt ==
  /\ view # "gone"
  /\ IF armed.exit THEN view' = "gone" /\ UNCHANGED <<text, armed, replying>>
     ELSE /\ armed' = [armed EXCEPT !.exit = TRUE]
          /\ replying' = FALSE
          /\ view' = IF replying THEN view ELSE "chat"
          /\ IF replying \/ view = "overlay" \/ input = <<>> THEN UNCHANGED text
             ELSE /\ Emptied /\ history_idx' = 0
                  /\ UNCHANGED <<prompts, undo>>

\* Ctrl+D on an empty text.
Leave ==
  /\ view = "chat" /\ input = <<>> /\ view' = "gone"
  /\ UNCHANGED <<text, armed, replying>>

Disarmed == armed' = [exit |-> FALSE, clear |-> FALSE]

\* Ctrl+_, also behind an overlay.
Undo ==
  /\ view # "gone" /\ Disarmed
  /\ IF undo = <<>> THEN UNCHANGED text
     ELSE /\ input' = Last(undo)[1] /\ cursor' = Last(undo)[2] /\ undo' = Front(undo)
          /\ history_idx' = 0
          /\ UNCHANGED prompts
  /\ UNCHANGED <<view, replying>>

\* Ctrl+G: the text as $EDITOR leaves it, without newlines at its end, or, when it
\* fails, as it was.
ExternalEditor ==
  /\ view # "gone" /\ Disarmed
  /\ PushUndo
  /\ \/ /\ \E s \in Pastes \cup {<<>>} : Replaced(s)
        /\ history_idx' = 0
     \/ UNCHANGED <<input, cursor, history_idx>>
  /\ UNCHANGED <<prompts, view, replying>>

\* A paste goes in in one piece; a long one with its middle replaced by a
\* reference is one of Pastes as well. Only the picker refuses it.
insert_paste(s) ==
  /\ view # "gone"
  /\ Edited(Before(input, cursor) \o s \o Behind(input, cursor), cursor + Length(s))
  /\ history_idx' = 0
  /\ UNCHANGED <<prompts, undo, armed, view, replying>>

\* Any key but those of Control, in an overlay.
OverlayKey ==
  /\ view = "overlay"
  /\ view' \in {"chat", "overlay"}
  /\ armed' = [armed EXCEPT !.exit = FALSE]
  /\ UNCHANGED <<text, replying>>

\* The windows of 1.5 s and 600 ms close; the reply is complete.
Tick ==
  /\ view # "gone"
  /\ armed' \in {[armed EXCEPT !.exit = FALSE], [armed EXCEPT !.clear = FALSE]}
  /\ replying' \in {FALSE, replying}
  /\ UNCHANGED <<text, view>>

Key ==
  \/ \E c \in Typed : Type(c)
  \/ BreakLine \/ Backspace \/ Delete \/ MoveCaret
  \/ history_up \/ history_down \/ accept_suggestion
  \/ submit \/ Escape \/ Interrupt \/ Leave \/ Undo \/ ExternalEditor
  \/ \E s \in Pastes : insert_paste(s)
  \/ OverlayKey \/ Tick

EditorNext == Key /\ Kept' <= MaxLen

EditorSpec == EditorInit /\ [][EditorNext]_editor_vars

-----------------------------------------------------------------------------
(* Properties                                                                 *)

\* No sequence of keys, pastes, undone edits, recalled prompts and overlays
\* panics in String::insert, drain or replace_range: the caret, and that of every
\* snapshot to be undone, is between two characters of its own text.
CaretOnBoundary ==
  /\ EditorTypeOK
  /\ cursor \in Boundaries(input)
  /\ \A i \in DOMAIN undo : undo[i][2] \in Boundaries(undo[i][1])

\* s without the character d.
Without(s, d) == FoldLeft(LAMBDA out, c : IF c = d THEN out ELSE Append(out, c), <<>>, s)

\* The transcript shows a text whole and within its width, and breaks no word
\* that a row has room for.
ShownWhole(s) ==
  LET rows == wrap_visual(s)
      word(i, j) == /\ \A k \in i .. j : s[k] # Space
                    /\ (i = 1 \/ s[i - 1] = Space) /\ (j = Len(s) \/ s[j + 1] = Space)
      within(part, row) ==
        \E k \in 0 .. Len(row) - Len(part) : SubSeq(row, k + 1, k + Len(part)) = part
  IN /\ Without(FlattenSeq(rows), Space) = Without(s, Space)
     /\ \A n \in DOMAIN rows : Wide(rows[n]) <= Width
     /\ \A i, j \in DOMAIN s : (i <= j /\ word(i, j) /\ Wide(SubSeq(s, i, j)) <= Width)
          => \E n \in DOMAIN rows : within(SubSeq(s, i, j), rows[n])

\* The box and the caret: the caret is in a row the box draws, behind the text in
\* the last one, and never beyond its last column; Home and End stay in the
\* caret's line.
BoxAgrees ==
  LET at == Walk(input, cursor) IN
  /\ at.row < Len(Rows(input)) /\ at.col <= Width
  /\ Walk(input, Length(input)).row + 1 = Len(Rows(input))
  /\ FlattenSeq(Rows(input)) = Without(input, Newline)
  /\ at.start <= cursor /\ cursor <= RowEnd(input, cursor)
  /\ {at.start, RowEnd(input, cursor)} \subseteq Boundaries(input)
  /\ Newline \notin Range(Behind(Before(input, RowEnd(input, cursor)), at.start))

\* What is typed is shown whole once it is sent: the lines of the transcript are
\* its paragraphs, wrapped (render_conversation, wrap_visual).
SentWhole == Newline \notin Range(input) => ShownWhole(input)

\* The functions that wrap one text, each by rules of its own, agree about it: those
\* that draw the box and place the caret in it, so that Up and Down know the first
\* and the last row, and the one that shows the text once it is sent.
RowsAgree == BoxAgrees /\ SentWhole
==============================================================================
