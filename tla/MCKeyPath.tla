------------------------------ MODULE MCKeyPath ------------------------------
(* Small encodings, .cin files and a keyboard for KeyPath. *)
EXTENDS KeyPath

\* Two bytes, two ranges, four characters; and two schemas, of which the second
\* has three bytes: 2 + 4 characters.  The range 4F..50 crosses an upper half.
Rule(plane, first, last) == [plane |-> plane, range |-> <<first, last>>]
TwoByte ==
    <<Rule(1, \HA1, \HA1), Rule(2, \H4F, \H50), Rule(1, \HB3, \HB3)>>
Mixed ==
    <<Rule(1, \HA1, \HA1), Rule(2, \H4F, \H50), NextSchema,
      Rule(1, \HB3, \HB3), Rule(2, \H4F, \H4F), Rule(2, \H67, \H67),
      Rule(3, \H4F, \H50)>>
Encs    == {TwoByte, Mixed}

\* Keys "a" and "A" have the same code.
Code == [k \in {97, 65, 98} |-> IF k = 98 THEN 2 ELSE 1]
CodeToKey == <<97, 98>>

Line(keys, text, mark) == [keys |-> keys, text |-> text, mark |-> mark]

\* Characters of both encodings or of one, phrases with and without ASCII, a
\* lone ASCII character, one that is nothing, and a phrase that is too long.
AnyLines ==
    {Line(<<97>>, <<\HA1, \H4F>>, FALSE), Line(<<65>>, <<\HB3, \H4F, \H4F>>, FALSE),
     Line(<<98, 97, 98>>, <<\HA1, \H4F>>, TRUE), Line(<<98>>, <<\HA1, \H4F, 57>>, FALSE),
     Line(<<97>>, <<\HA1, \H4F, \HA1, \H50>>, FALSE),
     Line(<<98, 97>>, <<\HA1, \H4F, \HA1, \H4F>>, TRUE),
     Line(<<97>>, <<57>>, FALSE), Line(<<98>>, <<8>>, FALSE),
     Line(<<97, 98>>, <<\HA1, \H4F, \HA1, \H4F, \HA1, \H4F>>, FALSE)}

\* The digits of the characters and a wrong one, the editing keys, another
\* letter, and letters with modifiers as XLookupString() sees them.
Plain == {KeyOf(c) : c \in {48, 49, 51, 52, 53, 54, 55, 97, 98, 102, 120}}
Other ==
    {KeyOf(XK_Escape), [sym |-> XK_BackSpace, str |-> <<8>>, mods |-> {}],
     [sym |-> 65470, str |-> <<>>, mods |-> {}],
     [sym |-> 65, str |-> <<65>>, mods |-> {"Shift"}],
     [sym |-> 65, str |-> <<65>>, mods |-> {"Lock"}],
     [sym |-> 65, str |-> <<65>>, mods |-> {"Lock", "Shift"}],
     [sym |-> 65, str |-> <<1>>, mods |-> {"Control", "Shift"}],
     [sym |-> 97, str |-> <<1>>, mods |-> {"Control"}],
     [sym |-> 33, str |-> <<33>>, mods |-> {"Shift"}]}
Keyboard == Plain \cup Other
=============================================================================
