----------------------------- MODULE MCPublicAPI -----------------------------
(***************************************************************************)
(* URIs of the six methods and of one that does not exist, with arguments  *)
(* missing, doubled, empty or glued to the method.  A second is two of the *)
(* clock's units.                                                          *)
(***************************************************************************)
EXTENDS PublicAPI, TLC

Date == <<"1394-02-09">>

MCTexts == 0..LastTime

MCCipher == [of \in Cryptos \X MCTexts |->
                ToString(of[1]) \o " token of " \o ToString(of[2])]

Early == Encrypt(TokenClient, 1)

Late == Encrypt(TokenClient, 6)

FromServer == Encrypt(TokenServer, 6)

MCPlaceholders == {<<"{DATE}">>, <<"{TOKEN}">>}

Tails ==
    LET pieces == {Empty, Date, Late, <<JSON>>}
    IN  {<< >>, <<Early>>, <<FromServer>>, <<Date, Early>>, <<Date, FromServer>>,
         <<Date, Empty, Late>>, <<Date, Late, Date>>, <<Date, Late, Empty>>,
         <<Date, Date, Early>>}
            \cup {<<p>> : p \in pieces} \cup {<<p, q>> : p, q \in pieces}

Methods == {"DataByDate", "LatestData", "Token", "Tokens"}

MCUris ==
    {<<<<"StockMarket">>, <<name>>, format>> \o tail :
        name \in Methods, format \in {<<JSON>>, <<XML>>, <<XML, JSON>>}, tail \in Tails}
=============================================================================
