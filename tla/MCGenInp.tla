------------------------------ MODULE MCGenInp ------------------------------
(* Small tables and option sets for GenInp. *)
EXTENDS GenInp

(* Three answers to "a", so that two selection keys make two pages, and    *)
(* enough to "*" for pages in the middle; a phrase among the answers to    *)
(* "ba", and none to "ab" and "bb".                                        *)
Entries ==
    <<[ks |-> <<"a">>, zi |-> <<"A">>], [ks |-> <<"a">>, zi |-> <<"B">>],
      [ks |-> <<"a">>, zi |-> <<"C">>], [ks |-> <<"a", "a">>, zi |-> <<"D">>],
      [ks |-> <<"b">>, zi |-> <<"G">>],
      [ks |-> <<"b", "a">>, zi |-> <<"V", "W">>], [ks |-> <<"b", "a">>, zi |-> <<"F">>],
      [ks |-> <<"b", "a">>, zi |-> <<"H">>]>>

Keys     == <<"1", "2", "a", "b">>
Selkeys  == <<"1", "2">>
Remap    == <<[ks |-> <<"b", "b">>, zi |-> <<"R">>]>>
CharKeys == {"a", "b", "1", "2", ">", "<", "*", "?"}

\* The options of an rcfile: the defaults compose and know wild cards.
Section(on, off) == [on |-> on, off |-> off]
Defaults == Section({"AUTOCOMPOSE", "WILDON", "AUTOUPCHAR"}, {"ENDKEY"})
Shared   == Section({}, {"AUTOUPCHAR"})
OptAll ==
    {<<Defaults, own>> : own \in
        {Shared,
         Section({"SPACERESET", "ENDKEY"}, {"AUTOUPCHAR"}),
         Section({"SPACEAUTOUP", "AUTORESET"}, {}),
         Section({"AUTOFULLUP", "TABNEXTPAGE"}, {"AUTOCOMPOSE", "AUTOUPCHAR"}),
         Section({"SELKEYSHIFT", "AUTOFULLUP", "SPACEIGNOR", "TABNEXTPAGE"}, {})}}

\* Under the options Shared two contexts type in turns, with a few keys: in one to
\* the phrases and two pages, in the other with wild cards to pages of phrases in
\* arrays of its own.  A search in either writes the array the first one's page is
\* in.  Under the other options one context is typed in, with all keys.
FewKeys(i) == IF i = 1 THEN {"a", "b", "1", "<"} ELSE {"b", "*", "1", "<"}
KeysIn(i, mode) ==
    IF mode = EffectiveMode(AskedFor(<<Defaults, Shared>>)) THEN FewKeys(i)
    ELSE IF i = 1 THEN CharKeys ELSE {}
=============================================================================
