----------------------------- MODULE MCNanoEdit -----------------------------
(***************************************************************************)
(* Sessions for model checking: small texts, the options that matter for   *)
(* them, and a family of commands that interact.                           *)
(***************************************************************************)
EXTENDS NanoHistory

Key(f) == [f |-> f, shifted |-> FALSE]
KeyWithShift(f) == [f |-> f, shifted |-> TRUE]
Key1(f, s) == [f |-> f, shifted |-> FALSE, s |-> s]
Key3(f, t) == [f |-> f, shifted |-> FALSE, t |-> t]
KeyN(f, n) == [f |-> f, shifted |-> FALSE, n |-> n]
Keys2(fs) == {Key(f) : f \in fs}
Types(strings) == {Key1("type", s) : s \in strings}
Replacing(f, needle, on, answer, choices) ==
  [f |-> f, shifted |-> FALSE, s |-> needle, on |-> on, t |-> answer, choices |-> choices]
Program(f, on, lines, fails) ==
  [f |-> f, shifted |-> FALSE, on |-> on, t |-> lines, fails |-> fails]

Reviewing == Keys2({"do_undo", "do_redo", "do_savefile"})
Two == << <<"a", "b">>, <<"c", " ", "a">> >>

Session(text, opts, keys, limit) ==
  [text |-> text, opts |-> opts, keys |-> keys, limit |-> limit]

Typing ==
  LET keys == Types({<<"x">>}) \cup Reviewing
                \cup Keys2({"do_enter", "do_backspace", "do_delete", "do_right", "do_up"})
  IN {Session(text, opts, keys, 6) : text \in {Two, << <<>> >>}, opts \in {{}, {"NO_NEWLINES"}}}

ZeroWidth ==
  {Session(<< <<"a", "0", "b">> >>, {}, Types({<<"0">>}) \cup Reviewing
      \cup Keys2({"do_delete", "do_backspace", "do_right", "do_left", "do_enter"}), 5)}

Wrapping ==
  LET keys == Types({<<"x">>, <<" ">>}) \cup Reviewing
                \cup Keys2({"do_enter", "do_backspace", "do_end", "to_next_word"})
                \cup {Key3("paste", << <<"y", " ", "z">> >>)}
  IN {Session(text, {"BREAK_LONG_LINES"} \cup opts, keys, 4) :
        text \in {<< <<"a", " ", "b", "c">>, <<"d">> >>,
                  << <<">", "a", " ", "b">>, <<">", "c">> >>},
        opts \in {{}, {"TRIM_BLANKS"}, {"AUTOINDENT"}}}

Cutting ==
  LET keys == Reviewing \cup Types({<<"x">>})
        \cup Keys2({"cut_text", "copy_text", "paste_text", "zap_text", "cut_till_eof",
                    "do_mark", "do_right", "do_down"})
  IN {Session(Two, opts, keys, 5) : opts \in {{}, {"CUT_FROM_CURSOR"}, {"NO_NEWLINES"}}}

Zapping ==
  {Session(Two, {"LET_THEM_ZAP"}, Reviewing \cup Keys2({"zap_text", "do_delete",
     "do_backspace", "cut_text", "paste_text", "do_down"})
     \cup {Key1("do_toggle", "CUT_FROM_CURSOR"), KeyWithShift("do_right"),
           KeyWithShift("do_down")}, 5)}

Words ==
  {Session(<< <<"a", ".", " ", "b">>, <<"c">> >>, opts,
     Reviewing \cup Keys2({"chop_previous_word", "chop_next_word", "cut_text",
       "paste_text", "to_next_word", "to_prev_word", "do_mark", "do_enter"}), 5) :
     opts \in {{}, {"WORD_BOUNDS"}, {"AFTER_ENDS"}}}

Shaping ==
  {Session(<< <<"a">>, <<>>, <<" ", "b">> >>, opts,
     Reviewing \cup Keys2({"do_indent", "do_unindent", "do_comment", "do_down"})
       \cup {KeyWithShift("do_down")}
       \cup IF opts = {"BRACKETING"} THEN {} ELSE Keys2({"do_tab", "do_right"}), 5) :
     opts \in {{}, {"TABS_TO_SPACES"}, {"BRACKETING"}}}

Justifying ==
  {Session(text, opts, Reviewing \cup Types({<<"x">>})
     \cup Keys2({"do_justify", "do_full_justify", "do_mark", "do_down", "do_right"}), 4) :
     text \in {<< <<"a", " ", " ", "b", "c">>, <<"d">>, <<>>, <<"e">> >>,
               << <<">", " ", "a", "b">>, <<">", "c", ".", " ", " ", "d">> >>},
     opts \in {{}, {"TRIM_BLANKS"}}}

Substituting ==
  {Session(<< <<"a", "b", " ", "a">>, <<"a", " ", "a", "b">> >>, {},
     Reviewing \cup Keys2({"do_mark", "do_down", "do_right", "do_findnext"})
      \cup {Replacing("do_replace", <<"a">>, FALSE, <<"a", "a">>, <<"ALL">>),
            Replacing("do_replace", <<"a">>, TRUE, <<>>, <<"YES", "NO", "ALL">>),
            Replacing("do_replace", <<"a", "b">>, FALSE, <<"x">>, <<"ALL">>),
            Key3("do_int_speller", <<[s |-> <<"a", "b">>, t |-> <<"b">>, choices |-> <<"ALL">>],
              [s |-> <<"a">>, t |-> <<"a", "b">>, choices |-> <<"ALL">>]>>)}, 4)}

Moving ==
  {Session(<< <<"a", "b", "\t", "c">>, <<"a", "b", "c", "d", "e", " ", "f", "g", "h">> >>,
     opts \cup {"SOFTWRAP"}, Types({<<"x">>})
      \cup Keys2({"do_up", "do_down", "do_right", "do_end", "do_home", "do_page_up",
                  "do_page_down", "to_first_line", "to_last_line"}), 4) :
     opts \in {{}, {"SMART_HOME"}}}

Paragraphs ==
  {Session(<< <<"a">>, <<" ", "b">>, <<>>, <<">", "c">>, <<">", " ", "d">> >>, opts,
     Types({<<" ">>}) \cup Reviewing
      \cup Keys2({"to_para_begin", "to_para_end", "to_prev_block", "to_next_block",
                  "do_enter", "do_full_justify"}), 4) :
     opts \in {{}, {"BOOKSTYLE"}, {"AUTOINDENT"}}}

Searching ==
  {Session(<< <<"a", "(", "b">>, <<")", "a", "(", ")">> >>, opts,
     Types({<<"(">>}) \cup Keys2({"do_findnext", "do_findprevious", "do_find_bracket",
        "do_delete", "do_undo"})
      \cup {Key1("do_search_forward", <<"a">>), Key1("do_search_backward", <<"b">>),
            KeyN("goto_line_and_column", <<-1, 2>>), KeyN("goto_line_and_column", <<1, -2>>),
            KeyN("goto_line_and_column", <<0, 3>>)}, 5) :
     opts \in {{}, {"SOFTWRAP"}}}

Viewing ==
  {Session(Two, {"VIEW_MODE"}, Reviewing \cup Types({<<"x">>})
     \cup Keys2({"do_enter", "do_delete", "cut_text", "paste_text", "copy_text",
                 "do_mark", "do_right", "do_down"}), 5)}

Tooling ==
  {Session(<< <<"a">>, <<"a", "b", " ", "a", "c">> >>, opts,
     Reviewing \cup Keys2({"complete_a_word", "do_mark", "do_end", "do_down"})
      \cup {Program("do_insertfile", FALSE, << <<"x">>, <<>> >>, FALSE),
            Program("do_execute", FALSE, << <<"e">> >>, TRUE),
            Program("do_execute", TRUE, << <<"y">> >>, FALSE),
            Program("do_spell", FALSE, << <<"a", "x">> >>, FALSE),
            Program("do_formatter", FALSE, << <<"z">>, <<>> >>, FALSE)}, 4) :
     opts \in {{}, {"BREAK_LONG_LINES"}}}

Message(line, col, own) == [line |-> line, col |-> col, own |-> own]
Linting ==
  {Session(<< <<"a", "\t", "b">>, <<"c">> >>, {},
     Reviewing \cup Types({<<"x">>}) \cup Keys2({"do_mark", "do_delete", "do_down"})
      \cup {[f |-> "do_linter", shifted |-> FALSE, on |-> saves, n |-> n, t |->
               <<Message(0, 1, TRUE), Message(1, 1, TRUE), Message(1, 3, TRUE),
                 Message(1, 2, FALSE), Message(9, 7, TRUE)>>] :
               n \in 0 .. 2, saves \in BOOLEAN}, 4)}

(***************************************************************************)
(* Sessions in which the code falls short of a property: see the README.   *)
(***************************************************************************)
(* PlacesInText: the cursor in the suffix of a comment that is taken off.  *)
Uncommenting ==
  {Session(<< <<"a">> >>, {"BRACKETING"}, Keys2({"do_right", "do_comment"}), 4)}

(* SizeCounted: prefix and suffix of a comment that overlap.               *)
Overlapping == {Session(<< <<"(", ".", ")">> >>, {"BRACKETING"}, Keys2({"do_comment"}), 1)}

(* PlacesInText: back over a word at the start of a line but for one       *)
(* zero-width character, below an empty line.                              *)
ZeroWidthStart ==
  {Session(<< <<>>, <<"0", "a">> >>, {}, Keys2({"do_down", "do_end", "to_prev_word"}), 4)}

(* JustifyKeepsText: a marked region that starts with an empty line.       *)
EmptyStart ==
  {Session(<< <<>>, <<">", " ", "a", " ", "b", " ", "c", "d">> >>, {},
     Keys2({"do_mark", "do_down", "do_end", "do_justify"}), 4)}

(* OneRowAtATime: Up stays below a row of one tab, in which lines that     *)
(* break at blanks may end.                                                *)
BreakingAtBlanks ==
  {Session(<< <<"\t", " ", "\t", "a", "a", "a">> >>, {"SOFTWRAP", "AT_BLANKS"},
     Keys2({"do_down", "do_up"}), 4)}

MCSessions ==
  Typing \cup ZeroWidth \cup Wrapping \cup Cutting \cup Zapping \cup Words \cup Shaping
    \cup Justifying \cup Substituting \cup Moving \cup Paragraphs \cup Searching
    \cup Viewing \cup Tooling \cup Linting
=============================================================================
