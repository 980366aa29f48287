----------------------------- MODULE MCImageFetch -----------------------------
(* Instances of ImageFetch for TLC: a head of two units, a prolog of three *)
(* and a cap of five.  The first worker meets every kind of response, the  *)
(* second shares the transport and its connections.                        *)
EXTENDS ImageFetch, TLC

CONSTANTS w1, w2

Host(name, zone, long, spelling) ==
  [name |-> name, zone |-> zone, long |-> long, spelling |-> spelling]
Cdn == Host("cdn", FALSE, FALSE, "public")
Origin == Host("origin", FALSE, FALSE, "public")

\* 9 is no public address; an origin whose answer changes shares 1 with the
\* cdn.
MCPublic == {1, 2, 3}
MCAnswers == [name \in {"cdn", "origin"} |->
                IF name = "cdn" THEN {<<1>>, <<>>} ELSE {<<3, 9>>, <<1, 2>>}]

Url(host) == [scheme |-> "https", user |-> FALSE, fragment |-> FALSE,
              host |-> host, port |-> ""]
U == Url(Cdn)
BadUrls == {[U EXCEPT !.scheme = "http"], [U EXCEPT !.user = TRUE],
            [U EXCEPT !.fragment = TRUE], [U EXCEPT !.host = NoHost],
            [U EXCEPT !.port = "8443"],
            Url(Host("cdn", TRUE, FALSE, "public")),
            Url(Host("cdn", FALSE, TRUE, "public")),
            Url(Host("cdn", FALSE, FALSE, "single")),
            Url(Host("cdn", FALSE, FALSE, "internal"))}
MCItems == (w1 :> {U, [Url(Origin) EXCEPT !.port = "443"]} \cup BadUrls) @@ (w2 :> {U})

PNG == "image/png"
SVG == "image/svg+xml"
BodyOf(magic, sends, root, ends) ==
  [magic |-> magic, sends |-> sends, root |-> root, ends |-> ends]
Response(status, location, length, type, encoded, body) ==
  [status |-> status, location |-> location, length |-> length, type |-> type,
   encoded |-> encoded, body |-> body]
Ok(length, type, body) == Response("ok", NoUrl, length, type, FALSE, body)
Image(n) == BodyOf(PNG, n, 0, "eof")
Redirect(u) == Response("redirect", u, 1, "text/html", FALSE, BodyOf("none", 1, 0, "eof"))

Endings == {"eof", "broken", "reset", "timeout"}
Chunked == {Ok(-1, "", BodyOf(PNG, n, 0, ends)) : n \in {0, 1, 2, 5, 6}, ends \in Endings}
           \cup {Ok(-1, type, Image(2)) : type \in {PNG, "text/html"}}
Declared == {Ok(n, "application/octet-stream", Image(n)) : n \in {1, 2, 5, 6}}
            \cup {Ok(4, PNG, BodyOf(PNG, n, 0, "short")) : n \in 0..3}
Drawings == {Ok(length, SVG, BodyOf(SVG, 5, root, "eof")) :
               length \in {-1, 5}, root \in {1, 2, 3, 4, 5}}
            \cup {Ok(-1, SVG, BodyOf(SVG, 3, 3, ends)) : ends \in Endings}
            \cup {Ok(-1, SVG, BodyOf(SVG, 1, 2, "eof"))}
            \cup {Ok(-1, SVG, BodyOf(SVG, sends, root, "eof")) :
                    sends \in {6, 7}, root \in {2, 3}}
            \cup {Ok(-1, SVG, BodyOf(SVG, 6, 3, "reset"))}
Others == {Ok(1, "", BodyOf("none", 1, 0, "eof")), Redirect(U), Redirect(Url(Origin)),
           Redirect(NoUrl), Redirect([U EXCEPT !.scheme = "http"]),
           Response("other", NoUrl, -1, "", FALSE, BodyOf("none", 4, 0, "eof")),
           Response("ok", NoUrl, 2, PNG, TRUE, Image(2))}
MCResponses == (w1 :> Chunked \cup Declared \cup Drawings \cup Others)
               @@ (w2 :> {Ok(2, PNG, Image(2))})
=============================================================================
