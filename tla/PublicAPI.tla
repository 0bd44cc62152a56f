------------------------------ MODULE PublicAPI ------------------------------
(***************************************************************************)
(* PublicAPIResource::handleRequest: a URI is resolved, its token is       *)
(* checked against the clock, and the reply is printed as JSON, XML or     *)
(* plain text.                                                             *)
(*                                                                         *)
(* The database is QuoteService's subject: here a query ends as it may.    *)
(***************************************************************************)
EXTENDS ServiceContract, Crypto

CONSTANTS
    Uris,             \* the URIs that clients send
    TokenClient,      \* the object whose key clients encrypt with
    TokenServer,      \* the object whose key the server encrypts with
    Second,           \* milliseconds in a second
    MaxDifference,    \* MAX_TOKEN_MILLISECONDS_DIFFERENCE
    LastTime,         \* the bound of the model's clock
    Nothing           \* no reply yet

DATE == <<"{DATE}">>

TOKEN == <<"{TOKEN}">>

ASSUME UriAssumption ==
    /\ Placeholders = {DATE, TOKEN}
    /\ \A uri \in Uris : uri # << >> /\ uri \in Seq(Seq(STRING))

ASSUME TimeAssumption ==
    /\ Second \in Nat \ {0}
    /\ MaxDifference \in Nat
    /\ Second <= MaxDifference
    /\ LastTime \in Nat

\* What is encrypted is a time in milliseconds.
ASSUME CryptoAssumption ==
    /\ Cryptos = {TokenClient, TokenServer}
    /\ TokenClient # TokenServer
    /\ 0..LastTime \subseteq Texts /\ Texts \subseteq Nat

VARIABLES now,     \* the server's clock, in milliseconds
          reply    \* a request of this moment and what was printed for it

vars == <<now, reply>>

JSON == "JSON"

XML == "XML"

Template(name, format, arguments) ==
    <<<<"StockMarket">>, <<name>>, <<format>>>> \o arguments

\* The contracts, in the order of their methods.
Contracts ==
    <<Register(Template("DataByDate", JSON, <<DATE, TOKEN>>)),
      Register(Template("DataByDate", XML, <<DATE, TOKEN>>)),
      Register(Template("LatestData", JSON, <<TOKEN>>)),
      Register(Template("LatestData", XML, <<TOKEN>>)),
      Register(Template("Token", JSON, << >>)),
      Register(Template("Token", XML, << >>))>>

Difference(x, y) == IF x >= y THEN x - y ELSE y - x

\* to_time_t cuts the milliseconds off.
WholeSeconds(time) == (time \div Second) * Second

\* Mutant of IsValidToken: the token may not be ahead of the truncated clock.
IsPastToken(encryptedToken, time) ==
    LET decrypted == Decrypt(TokenClient, encryptedToken)
        ahead == WholeSeconds(time) - decrypted.recoveredText
    IN  decrypted.ok /\ ahead >= 0 /\ ahead <= MaxDifference

\* A text that TokenClient cannot decrypt, such as what TokenServer encrypted,
\* is no number and hence no token.
IsValidToken(encryptedToken, time) ==
    LET decrypted == Decrypt(TokenClient, encryptedToken)
    IN  /\ decrypted.ok
        /\ Difference(WholeSeconds(time), decrypted.recoveredText) <= MaxDifference

\* Mutant of GetToken: with the key of the other direction.
GetTokenOfClient == Encrypt(TokenClient, now)

GetToken == Encrypt(TokenServer, now)

\* contains(text, "/" + format): some piece but the first begins with it.
Mentions(text, format) ==
    \E i \in 2..Len(text) : IsPrefix(<<format>>, text[i])

Format(text) == IF Mentions(text, JSON) THEN JSON
                ELSE IF Mentions(text, XML) THEN XML ELSE "text"

Printed(type, body) == [type |-> type, body |-> body, token |-> Empty]

PrintedToken(type) == [type |-> type, body |-> "token", token |-> GetToken]

HasName(uriTemplate, name) == uriTemplate[2] = <<name>>

\* Mutant of Replies: what the database throws is not caught.
RepliesUncaught(uriTemplate) ==
    {Printed(Format(uriTemplate), "quotes"), Printed("text", "")}

\* The methods behind the templates, of which those that are neither of the
\* first two print a token.  A database that is busy or lacks a table
\* throws, and the last catch prints the status as plain text.
Replies(uriTemplate) ==
    LET format == Format(uriTemplate)
        failed == Printed("text", "500")
    IN  CASE HasName(uriTemplate, "DataByDate") ->
                 {Printed(format, "quotes"), Printed(format, "404"), failed}
          [] HasName(uriTemplate, "LatestData") ->
                 {Printed(format, "quotes"), failed}
          [] OTHER -> {PrintedToken(format)}

\* What the methods are given, and what is checked: args[0], and the last one.
DateArgument(resolved) == resolved.args[1]

TokenArgument(resolved) == Last(resolved.args)

NeedsToken(uriTemplate) == \E i \in DOMAIN uriTemplate : uriTemplate[i] = TOKEN

\* Mutant of Handle: the token is the first argument.
HandleFirst(uri) ==
    LET resolved == Resolve(Contracts, uri)
    IN  IF ~resolved.found
        THEN {Printed(Format(uri), "400")}
        ELSE IF NeedsToken(resolved.uriTemplate)
                /\ ~IsValidToken(DateArgument(resolved), now)
        THEN {Printed(Format(resolved.uriTemplate), "INVALID_TOKEN")}
        ELSE Replies(resolved.uriTemplate)

\* The replies that a request may get at this time.
Handle(uri) ==
    LET resolved == Resolve(Contracts, uri)
    IN  IF ~resolved.found
        THEN {Printed(Format(uri), "400")}
        ELSE IF NeedsToken(resolved.uriTemplate)
                /\ ~IsValidToken(TokenArgument(resolved), now)
        THEN {Printed(Format(resolved.uriTemplate), "INVALID_TOKEN")}
        ELSE Replies(resolved.uriTemplate)

HandleRequest ==
    /\ \E uri \in Uris : \E printed \in Handle(uri) :
          reply' = [uri |-> uri, printed |-> printed]
    /\ UNCHANGED now

\* The reply is kept for as long as the time is the one it was made at.
Tick == now < LastTime /\ now' = now + 1 /\ reply' = Nothing

Init == now = 0 /\ reply = Nothing

Next == HandleRequest \/ Tick

Spec == Init /\ [][Next]_vars

-----------------------------------------------------------------------------
TypeOK ==
    /\ now \in 0..LastTime
    /\ reply # Nothing =>
          /\ reply.uri \in Uris
          /\ reply.printed \in
                 [type : {JSON, XML, "text"},
                  body : {"quotes", "token", "400", "404", "500", "INVALID_TOKEN"},
                  token : {Empty} \cup {Encrypt(TokenServer, t) : t \in Texts}]
          /\ reply.printed.token # Empty <=> reply.printed.body = "token"

Body == IF reply = Nothing THEN "none" ELSE reply.printed.body

\* Quotes, and the fact that a day has none, are told only to who sends a token
\* at the end of the URI that is not a second older or newer than allowed, at
\* whatever time and however the URI is spelled.
QuotesNeedToken ==
    Body \in {"quotes", "404"} =>
        LET token == Decrypt(TokenClient, Last(reply.uri))
        IN  token.ok /\ Difference(now, token.recoveredText) < MaxDifference + Second

\* A URI that fills a template, whose token is as old as allowed to the
\* millisecond, is never refused, although the server's clock is truncated and
\* the token's is not.
TimelyTokenServed ==
    reply # Nothing =>
        \A i \in DOMAIN Contracts :
            LET contract == Contracts[i]
                template == contract.uriTemplate
                token == Decrypt(TokenClient, Last(reply.uri))
            IN  /\ Len(reply.uri) = Len(template)
                /\ SubSeq(reply.uri, 1, 3) = contract.webMethod
                /\ \A j \in DOMAIN reply.uri : reply.uri[j] # Empty
                /\ NeedsToken(template) =>
                      /\ token.ok
                      /\ token.recoveredText <= now
                      /\ now - token.recoveredText <= MaxDifference
                => Body \notin {"400", "INVALID_TOKEN"}

\* What a client makes of a token: it decrypts it with the server's key and
\* encrypts the time with its own.
Returned(token) == Encrypt(TokenClient, Decrypt(TokenServer, token).recoveredText)

\* The two keys and the two clocks fit together: a token that is asked for and
\* returned is valid from that very moment, in which it is ahead of the whole
\* seconds of the server's clock, until it is as old as allowed, while the
\* text that the server sent is no token itself.
IssuedTokenServes ==
    Body = "token" =>
        LET token == reply.printed.token
        IN  /\ Decrypt(TokenServer, token).ok
            /\ \A time \in now..(now + MaxDifference) :
                  IsValidToken(Returned(token), time) /\ ~IsValidToken(token, time)

\* The first and the last argument are read without a look at how many there
\* are, and the method is found by text, not by pieces. Still the token is the
\* last piece of the URI, whole, and with the method and the date before it
\* the URI has no more to it but slashes: nothing that a client wrote is read
\* twice, skipped or cut, glued to the method or between doubled slashes.
UriIsReadWhole ==
    reply # Nothing =>
        LET resolved == Resolve(Contracts, reply.uri)
            template == resolved.uriTemplate
            date == IF HasName(template, "DataByDate") THEN DateArgument(resolved) ELSE Empty
        IN  resolved.found /\ NeedsToken(template) =>
                /\ TokenArgument(resolved) = Last(reply.uri)
                /\ FlattenSeq(reply.uri) = FlattenSeq(Without(template, Placeholders))
                                               \o date \o TokenArgument(resolved)

\* A client is answered in the format of the method it calls, a refusal of its
\* token included; only the 500 of an exception is always plain text.
RepliesInFormat ==
    Body \in {"quotes", "token", "404", "INVALID_TOKEN"} =>
        IsPrefix(<<reply.printed.type>>, reply.uri[3])
=============================================================================
