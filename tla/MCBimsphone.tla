----------------------------- MODULE MCBimsphone -----------------------------
(* Methods, lists and keys for Bimsphone. *)
EXTENDS Bimsphone

\* One section of each kind: selecting from the window, plain, and pinyin.
RcAll ==
    "zh"  :> [pinyin |-> FALSE, mode |-> {"AUTOSEL", "PHRASESEL", "SPACESEL"},
              esc |-> {"shift", "fallback"}, n_selphr |-> 2]
 @@ "no"  :> [pinyin |-> FALSE, mode |-> {"AUTOUPCH"}, esc |-> {"ctrl", "fallback"}, n_selphr |-> 2]
 @@ "pin" :> [pinyin |-> TRUE, mode |-> {}, esc |-> {"shift"}, n_selphr |-> 2]

Keys == <<"1", "2">>

\* One candidate; three pages with a short last one; phrases of which two do
\* not always fit on a page.
Zhi == {<<<<"a">>>>,
        <<<<"a">>, <<"b">>, <<"c">>, <<"d">>, <<"e">>>>}
Tsi == {<<<<"a", "b">>, <<"c", "d">>, <<"e">>>>,
        <<<<"a">>, <<"c", "d">>, <<"e", "f", "g", "h">>, <<"i", "j", "k", "l">>>>}

AllKeys == {"Up", "Down", "Return", "space", "Escape", "BackSpace", "Next",
            "Prev", "OffPage", "char", "1", "2"}
Keystrokes ==
    (AllKeys \X {{}})
      \cup ({"char"} \X {{"ctrl"}, {"shift"}, {"lock"}, {"shift", "lock"}})
      \cup ({"Return", "Next"} \X {{"ctrl"}, {"shift"}})
      \cup ({"Up"} \X {{"lock"}})

=============================================================================
