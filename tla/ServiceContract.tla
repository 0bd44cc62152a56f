--------------------------- MODULE ServiceContract ---------------------------
(***************************************************************************)
(* ServiceContract: the table of URI templates and how a URI is resolved   *)
(* to one of them.                                                         *)
(*                                                                         *)
(* A URI is the sequence of its pieces between the slashes, a piece the    *)
(* sequence of the words it is glued together from, "" the empty one.      *)
(***************************************************************************)
EXTENDS Naturals, Sequences, FiniteSets, SequencesExt

CONSTANT Placeholders   \* the pieces of templates that stand for arguments

Empty == << >>

IsArgument(piece) == piece \in Placeholders

\* The pieces, in their order, that are not omitted.
Without(pieces, omitted) ==
    LET kept[i \in 0..Len(pieces)] ==
            IF i = 0 THEN << >>
            ELSE IF pieces[i] \in omitted THEN kept[i - 1]
            ELSE Append(kept[i - 1], pieces[i])
    IN  kept[Len(pieces)]

ArgsCount(uriTemplate) ==
    Cardinality({i \in DOMAIN uriTemplate : IsArgument(uriTemplate[i])})

Register(uriTemplate) ==
    [webMethod   |-> Without(uriTemplate, Placeholders),
     uriTemplate |-> uriTemplate,
     argsCount   |-> ArgsCount(uriTemplate)]

\* Mutant of StartsWith: the format is left out of the comparison.
StartsWithName(uri, webMethod) ==
    Len(webMethod) <= Len(uri) /\ \A i \in 1..2 : uri[i] = webMethod[i]

\* starts_with compares text: the last piece of the method may be the beginning
\* of a longer piece of the URI.
StartsWith(uri, webMethod) ==
    LET n == Len(webMethod)
    IN  /\ n <= Len(uri)
        /\ \A i \in 1..(n - 1) : uri[i] = webMethod[i]
        /\ IsPrefix(webMethod[n], uri[n])

\* Mutant of Remainder: what is glued to the method is skipped.
RemainderAfterSlash(uri, webMethod) ==
    <<Empty>> \o SubSeq(uri, Len(webMethod) + 1, Len(uri))

\* What follows the method, starting with the rest of the piece it ends in.
Remainder(uri, webMethod) ==
    LET n == Len(webMethod)
    IN  <<SubSeq(uri[n], Len(webMethod[n]) + 1, Len(uri[n]))>>
            \o SubSeq(uri, n + 1, Len(uri))

\* No slash, no argument; two slashes with nothing in between are one.
Arguments(uri, webMethod) ==
    LET pieces == Remainder(uri, webMethod)
    IN  IF Len(pieces) = 1
        THEN << >>
        ELSE Without(pieces, {Empty})

ArgumentsFit(uri, contract) ==
    contract.argsCount = Len(Arguments(uri, contract.webMethod))

\* Contracts are tried in the order of their methods.  The arguments of one
\* whose number of arguments does not fit stay in out_args.
Resolve(contracts, uri) ==
    LET tried == {i \in DOMAIN contracts : StartsWith(uri, contracts[i].webMethod)}
        fits  == {i \in tried : ArgumentsFit(uri, contracts[i])}
        first == CHOOSE i \in fits : \A j \in fits : i <= j
        args(i) == IF i \in tried THEN Arguments(uri, contracts[i].webMethod) ELSE << >>
    IN  IF Last(uri) = Empty \/ fits = {}
        THEN [found |-> FALSE]
        ELSE [found       |-> TRUE,
              uriTemplate |-> contracts[first].uriTemplate,
              args        |-> FlattenSeq([i \in 1..first |-> args(i)])]
=============================================================================
