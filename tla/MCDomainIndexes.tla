---------------------------- MODULE MCDomainIndexes ----------------------------
(* Instances of DomainIndexes for TLC. *)
EXTENDS DomainIndexes

Dotted(first, second) == first \o <<".">> \o second

Ex  == Dotted(<<"ex">>, <<"com">>)
Api == Dotted(<<"api">>, Ex)

\* Two spellings of one domain, one below it and one beside that two labels
\* down; the empty domain; one that the two normalizations read differently,
\* and one with an empty label.
SomeDomains ==
  [k \in CookieKey |-> CASE k = "a" -> Ex
                         [] k = "b" -> Dotted(<<>>, Ex)
                         [] k = "c" -> Api
                         [] k = "d" -> Dotted(<<"w">>, Dotted(<<"ot">>, <<"com">>))
                         [] k = "e" -> <<>>
                         [] k = "f" -> Dotted(<<" ">>, <<" ">> \o Ex)
                         [] OTHER   -> Dotted(<<"ex">>, Dotted(<<>>, <<"com">>))]

Hosts == {DomainOf[k] : k \in CookieKey}
           \cup {<<"com">>, <<"net">>, Dotted(<<"v1">>, Api), <<".", ".">>,
                 Dotted(<<"api">>, Dotted(<<>>, Ex)), <<"wide">> \o Ex,
                 <<"v1">> \o Ex}

Letters == {"com", "ex", "api", "v1", "ot", "w", "net"}

Lists == {<<>>} \cup {<<x, y>> : x, y \in [key : {"a", "c"}, flags : SUBSET Flag]}
=============================================================================
