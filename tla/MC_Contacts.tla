---------------------------- MODULE MC_Contacts ----------------------------
(* Found by full name, by name parts, by an address kept or cut off, or not. *)
EXTENDS Contacts

Text(key, hit) == [key |-> key, hit |-> hit]

Card(fn, n, emails, phones) == [fn |-> fn, n |-> n, emails |-> emails, phones |-> phones]

ann == Card(Text(2, TRUE), NoText, <<FALSE>>, 1)
zoe == Card(Text(4, TRUE), NoText, <<>>, 0)
parts == Card(NoText, Text(1, TRUE), <<>>, 0)
mail == Card(Text(1, FALSE), NoText, <<FALSE, TRUE>>, 3)
far == Card(Text(2, FALSE), NoText, <<FALSE, FALSE, TRUE>>, 0)
nameless == Card(NoText, NoText, <<TRUE>>, 0)
blank == Card(NoText, NoText, <<>>, 0)

MCCards == {ann, zoe, parts, mail, far, nameless, blank}

MCBooks == {<<>>, <<ann>>, <<far, parts>>, <<blank, nameless>>, <<mail, zoe, ann>>}

MCAccounts ==
    [books : {<<>>}, home : MCBooks]
    \cup [books : {<<a, b, c>> : a, b, c \in MCBooks}, home : {<<>>}]

MCLimits == {-1, 0, 1, 2, 9}

MCQuirks == SUBSET {"filter", "limit"}

MCMailOnly == {[books |-> <<<<mail>>>>, home |-> <<>>]}

MCConforming == {{}}
=============================================================================
