--------------------------- MODULE MCEndpointGuard ---------------------------
(* Instances of the endpoint guard for TLC: a URL for each rule, and the       *)
(* addresses on both sides of each range.                                      *)
EXTENDS EndpointGuard

OAuth2 == <<"oauth2", "googleapis", "com">>
Login == <<"login", "microsoftonline", "com">>

MCUrls ==
    {Garbage,
     Plain(OAuth2), Plain(<<"eu">> \o OAuth2), Plain(OAuth2 \o <<"example">>), Plain(Login),
     Plain(<<"googleapis", "com">>), Plain(IpLiteral), Plain(<<>>),
     [Plain(OAuth2) EXCEPT !.port = 443]}
      \cup {[Plain(OAuth2) EXCEPT !.scheme = "http"], [Plain(OAuth2) EXCEPT !.user = TRUE],
            [Plain(OAuth2) EXCEPT !.port = 8443], [Plain(OAuth2) EXCEPT !.root = TRUE],
            [Plain(OAuth2) EXCEPT !.query = TRUE], [Plain(Login) EXCEPT !.fragment = TRUE]}

V(kind, hi) == [kind |-> kind, hi |-> hi, lo |-> "some"]
Edges ==
    {V("v4", Prefix(100, b)) : b \in {63, 64, 127, 128}}
      \cup {V("v4", Prefix(172, b)) : b \in {15, 16, 31, 32}}
      \cup {V("v6", hi) : hi \in {64511, 64512, 65023, 65024, 65151, 65152, 65215, 65216, 65280}}
      \cup {V("mapped", Prefix(10, 0)), V("mapped", Prefix(100, 128)),
            [kind |-> "v6", hi |-> 0, lo |-> "one"], [kind |-> "v4", hi |-> 0, lo |-> "zero"],
            [kind |-> "v4", hi |-> MaxHigh, lo |-> "ones"], V("v4", MaxHigh)}

\* Any address alone, and pairs of a public and another one.
MCAnswers ==
    {{}} \cup {{a} : a \in Edges}
      \cup {{V("v4", Prefix(100, 63)), a} : a \in {V("v4", Prefix(127, 0)), V("v6", 64512)}}
=============================================================================
