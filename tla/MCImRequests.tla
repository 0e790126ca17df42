---------------------------- MODULE MCImRequests ----------------------------
(* An instance of ImRequests. *)
EXTENDS ImRequests

Lists(S, n) == UNION {[1 .. k -> S] : k \in 1 .. n}

Keys == << <<32, 4, 4>>, <<65, 8, 8>> >>
RcStyles == << "Root", "OffTheSpot", "OnTheSpot" >>

Names == {Str("COMPOUND_TEXT", 13), Str("XIM_EXT_MOVE", 12), Str("zh", 2)}
Infos == {<<>>} \cup Lists({Str("iso", 3), Str("big5", 4)}, 2)

Preedit == { Nums("area", <<1, 2, 3, 4>>), Nums("spotLocation", <<5, 0>>), Font(Str("kc24", 4)),
             Nums("lineSpace", <<2>>) }
Nests == {Nest("preeditAttributes", l) : l \in Lists(Preedit, 2)}
Status == Nest("statusAttributes", <<Nums("foreground", <<3>>)>>)
Own == {Nums("inputStyle", <<514>>), Nums("inputStyle", <<1028>>), Nums("focusWindow", <<77>>)}
Attrs == Lists(Own \cup {Status}, 2) \cup {<<n>> : n \in Nests}
           \cup {<<n, a>> : n \in Nests, a \in Own} \cup {<<a, n>> : n \in Nests, a \in Own}

Separator == IdOf("separatorofNestedList")
Asked(name, l) == <<IdOf(name)>> \o l \o <<Separator>>
AskedNests ==
  {Asked("preeditAttributes", [k \in DOMAIN l |-> IdOf(l[k])]) :
     l \in Lists({"area", "spotLocation", "foreground", "lineSpace"}, 2)}
  \cup {Asked("statusAttributes", <<IdOf("foreground")>>)}
Simple == {<<IdOf("inputStyle")>>, <<IdOf("filterEvents")>>}
Pairs(s, t) == {a \o b : a \in s, b \in t}
AskedIds == Simple \cup AskedNests \cup Pairs(Simple, AskedNests) \cup Pairs(AskedNests, Simple)

ClientRequests ==
  {Request("OPEN", <<n>>, <<>>, <<>>, <<>>) : n \in Names}
  \cup {Request("QUERY_EXTENSION", l, <<>>, <<>>, <<>>) : l \in Lists(Names, 3)}
  \cup {Request("GET_IM_VALUES", <<>>, <<>>, l, <<>>) : l \in Lists({1, 2, 99}, 3)}
  \cup {Request("ENCODING_NEGOTIATION", l, i, <<>>, <<>>) : l \in Lists(Names, 2), i \in Infos}
  \cup {Request("CREATE_IC", <<>>, <<>>, <<>>, l) : l \in Attrs}
  \cup {Request("SET_IC_VALUES", <<>>, <<>>, <<>>, l) : l \in Attrs}
  \cup {Request("GET_IC_VALUES", <<>>, <<>>, l, <<>>) : l \in AskedIds}
  \cup {Request("RESET_IC", <<>>, <<>>, <<>>, <<>>)}
  \cup {Request("EXT_MOVE", <<>>, <<>>, <<7, 9>>, <<>>)}
  \cup {Request("EXT_FORWARD_KEYEVENT", <<>>, <<>>, <<0, 5, type, 38, 1, 100, 12>>, <<>>) :
          type \in {2, 3}}

Texts == {NoStr, Str("a", 1), Str("zhong", 5), Str("zhongwen", 8)}
ServerNotices ==
  {Request("COMMIT", <<t>>, <<>>, <<>>, <<>>) : t \in Texts \ {NoStr}}
  \cup {Request("PREEDIT_DRAW", <<t>>, <<>>, <<n>>, <<>>) : t \in Texts, n \in {0, 3}}
  \cup {Request("STATUS_DRAW", <<t>>, <<>>, <<>>, <<>>) : t \in Texts}
  \cup {Request("DISCONNECT", <<>>, <<>>, <<n>>, <<>>) : n \in {0, 3}}
  \cup {Request(op, <<>>, <<>>, <<>>, <<>>) : op \in {"CONNECT", "SYNC"}}
=============================================================================
