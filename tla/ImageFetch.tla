------------------------------ MODULE ImageFetch ------------------------------
(***************************************************************************)
(* internal/imagedownload: policy.go, client.go and image.go, called as    *)
(* tools/upload.go calls them: a worker gets an address, through redirects *)
(* and over connections to validated addresses only, streams the body into *)
(* its sink and closes it; when the sink failed it starts again from zero. *)
(* The workers share one Fetcher and the connections its transport keeps.  *)
(*                                                                         *)
(* Sizes are in units: the head that is sniffed, the prolog of an SVG and  *)
(* the cap are a few units long.  What the network does is chosen: the     *)
(* answers of the resolver, how a dial or a request ends, the responses.   *)
(* net/http is external: a body that ends early or breaks fails at every   *)
(* read from there on; the end of a body shows with its last bytes or at   *)
(* the read behind them; a body read to its end leaves its connection for  *)
(* reuse.                                                                  *)
(***************************************************************************)
EXTENDS Integers, Sequences, FiniteSets, SequencesExt

CONSTANTS
  Workers,
  Items,           \* of a worker: the addresses it may be given
  Answers,         \* of a host name: the address lists a resolver may return
  Public,          \* the addresses AllowedIP lets pass
  Responses,       \* of a worker: what the servers may answer it
  NoUrl, NoHost, NoConn, NoTransport, NoResponse,
  MaxRedirects, MaxImageBytes, SniffBytes, SVGPrologBytes,
  DrainBytes,      \* what drainClose reads
  MaxIdleConns     \* the connections a transport keeps

Resps == UNION {Responses[v] : v \in Workers}

ASSUME FetchAssumption ==
  /\ {MaxRedirects, MaxImageBytes, SniffBytes, SVGPrologBytes, DrainBytes,
      MaxIdleConns} \subseteq Nat
  /\ MaxIdleConns > 0
  /\ 0 < SniffBytes /\ SniffBytes <= SVGPrologBytes
  /\ SVGPrologBytes < MaxImageBytes
  /\ \A r \in Resps :
       /\ r.body.sends \in Nat /\ r.body.root \in Nat /\ r.length \in Int
       /\ r.length >= 0 => r.body.sends <= r.length
       /\ r.body.ends = "short" <=> r.body.sends < r.length

VARIABLES
  transport,  \* f.transport: the worker that built it
  idle,       \* the connections kept for reuse
  fetch       \* each worker's fetch

vars == <<transport, idle, fetch>>

NoFetch == [at |-> "idle", item |-> NoUrl, url |-> NoUrl, hop |-> 0, via |-> NoTransport,
            ips |-> <<>>, conn |-> NoConn, resp |-> NoResponse, open |-> FALSE,
            pos |-> 0, n |-> 0, det |-> "none", err |-> "none"]

-----------------------------------------------------------------------------
(* policy.go                                                               *)

\* The first rule that the address breaks.
ValidateURL(u) ==
  CASE u.scheme # "https" -> "scheme"
    [] u.user -> "userinfo"
    [] u.fragment -> "fragment"
    [] u.host = NoHost -> "empty host"
    [] u.port \notin {"", "443"} -> "port"
    [] u.host.zone -> "zone"
    [] u.host.long -> "host chars"
    [] u.host.spelling = "single" -> "single label"
    [] u.host.spelling = "internal" -> "internal name"
    [] OTHER -> "none"

\* Every address that may be asked for; the resolver has lists for each host
\* that passes.
Urls == ((UNION {Items[v] : v \in Workers}) \cup {r.location : r \in Resps}) \ {NoUrl}
ASSUME AddressAssumption ==
  /\ \A v \in Workers : NoUrl \notin Items[v]
  /\ \A u \in Urls : ValidateURL(u) = "none" => u.host.name \in DOMAIN Answers
  /\ \A name \in DOMAIN Answers : \A ips \in Answers[name] : ips \in Seq(ToSet(ips))

AllowedIP(ip) == ip \in Public

\* One address that is not public refuses the whole answer.
ResolveHost(host, ips) ==
  IF ips = <<>> \/ \E ip \in ToSet(ips) : ~AllowedIP(ip)
  THEN [err |-> "blocked", ips |-> <<>>]
  ELSE [err |-> "none", ips |-> ips]

-----------------------------------------------------------------------------
(* client.go                                                               *)

Ended(err) == [NoFetch EXCEPT !.at = "ended", !.err = err]
Fails(w, err) == fetch' = [fetch EXCEPT ![w] = Ended(err)]

\* Get: the length and the characters of the raw string, then the policy.
StartGet(w, u) ==
  /\ fetch[w] = NoFetch
  /\ LET verdict == ValidateURL(u)
     IN  fetch' = [fetch EXCEPT ![w] =
           IF verdict # "none" THEN Ended("bad-url")
           ELSE [NoFetch EXCEPT !.at = "transport", !.item = u, !.url = u]]
  /\ UNCHANGED <<transport, idle>>

\* roundTripper: f.transport is read without a lock; a worker that reads nil
\* builds one, the last to store it wins, and what it returns is read again.
ReadTransport(w) ==
  /\ fetch[w].at = "transport"
  /\ fetch' = [fetch EXCEPT ![w].at = IF transport = NoTransport THEN "build" ELSE "send",
                            ![w].via = transport]
  /\ UNCHANGED <<transport, idle>>

BuildTransport(w) ==
  /\ fetch[w].at = "build"
  /\ transport' = w
  /\ fetch' = [fetch EXCEPT ![w].at = "transport"]
  /\ UNCHANGED idle

\* RoundTrip: over an idle connection of the host, or over a new one.
Reuse(w) ==
  /\ fetch[w].at = "send"
  /\ \E c \in idle : /\ c.via = fetch[w].via /\ c.host = fetch[w].url.host
                     /\ idle' = idle \ {c}
                     /\ fetch' = [fetch EXCEPT ![w].at = "sent", ![w].conn = c]
  /\ UNCHANGED transport

\* resolveOnce under its budget.
Resolve(w) ==
  /\ fetch[w].at = "send"
  /\ \/ Fails(w, "timeout") \/ Fails(w, "network")
     \/ \E ips \in Answers[fetch[w].url.host.name] :
          LET verdict == ResolveHost(fetch[w].url.host, ips)
          IN  IF verdict.err # "none" THEN Fails(w, verdict.err)
              ELSE fetch' = [fetch EXCEPT ![w].at = "dial", ![w].ips = verdict.ips]
  /\ UNCHANGED <<transport, idle>>

\* dialOne: refused, another peer than the one dialed, no handshake, or a
\* connection; dialTLS goes on with the next address.
Dial(w) ==
  /\ fetch[w].at = "dial"
  /\ \/ fetch' = [fetch EXCEPT
                    ![w].at = "sent", ![w].ips = <<>>,
                    ![w].conn = [host |-> fetch[w].url.host,
                                 ip |-> Head(fetch[w].ips), via |-> fetch[w].via]]
     \/ /\ Len(fetch[w].ips) > 1
        /\ fetch' = [fetch EXCEPT ![w].ips = Tail(@)]
     \/ /\ Len(fetch[w].ips) = 1
        /\ \E err \in {"network", "timeout"} : Fails(w, err)
  /\ UNCHANGED <<transport, idle>>

\* No response: classifyTransport.
NoReply(w) ==
  /\ fetch[w].at = "sent"
  /\ \E err \in {"network", "timeout"} : Fails(w, err)
  /\ UNCHANGED <<transport, idle>>

Reply(w, resp) ==
  /\ fetch[w].at = "sent"
  /\ fetch' = [fetch EXCEPT ![w].at = "replied", ![w].resp = resp, ![w].open = TRUE]
  /\ UNCHANGED <<transport, idle>>

\* Body.Close; the transport keeps a connection whose body was read to a
\* clean end, in place of another when it has as many as it keeps.
Closed(w, read) ==
  LET resp == fetch[w].resp
      conn == fetch[w].conn
      kept == {c \in idle : c.via = conn.via}
  IN  IF read < resp.body.sends \/ resp.body.ends # "eof" THEN UNCHANGED idle
      ELSE IF Cardinality(kept \cup {conn}) <= MaxIdleConns
           THEN idle' = idle \cup {conn}
      ELSE \E c \in kept : idle' = (idle \ {c}) \cup {conn}

\* Mutant: a redirect is followed wherever it leads.
RedirectedUnchecked(f) ==
  IF f.resp.location = NoUrl THEN Ended("http-status")
  ELSE IF f.hop >= MaxRedirects THEN Ended("redirect-limit")
  ELSE [NoFetch EXCEPT !.at = "send", !.item = f.item, !.via = f.via,
                       !.url = f.resp.location, !.hop = f.hop + 1]

\* The next hop: the limit, then the whole policy again.
Redirected(f) ==
  IF f.resp.location = NoUrl THEN Ended("http-status")
  ELSE IF f.hop >= MaxRedirects THEN Ended("redirect-limit")
  ELSE IF ValidateURL(f.resp.location) # "none" THEN Ended("bad-url")
  ELSE [NoFetch EXCEPT !.at = "send", !.item = f.item, !.via = f.via,
                       !.url = f.resp.location, !.hop = f.hop + 1]

Refusal(resp) ==
  CASE resp.status = "other" -> "http-status"
    [] resp.status = "ok" /\ resp.length > MaxImageBytes -> "too-large"
    [] resp.status = "ok" /\ resp.encoded -> "encoding"
    [] OTHER -> "none"

\* Everything but a plain 200 is drained and closed.
Classify(w) ==
  /\ fetch[w].at = "replied"
  /\ LET resp == fetch[w].resp
     IN  \/ /\ resp.status = "redirect"
            /\ Closed(w, DrainBytes)
            /\ fetch' = [fetch EXCEPT ![w] = Redirected(@)]
         \/ /\ Refusal(resp) # "none"
            /\ Closed(w, DrainBytes)
            /\ Fails(w, Refusal(resp))
         \/ /\ resp.status = "ok" /\ Refusal(resp) = "none"
            /\ fetch' = [fetch EXCEPT ![w].at = "head", ![w].url = NoUrl,
                                      ![w].hop = 0]
            /\ UNCHANGED idle
  /\ UNCHANGED transport

-----------------------------------------------------------------------------
(* image.go: ConsumeBody.  pos counts what was read, all of it handed to   *)
(* the sink; n is what ConsumeBody counts.                                 *)

Body(w) == fetch[w].resp.body
Ends(w, err, pos, n) ==
  [fetch[w] EXCEPT !.at = "close", !.err = err, !.pos = pos, !.n = n]

\* Mutant: an early end is an end.
ReadErrorLenient(w) ==
  CASE Body(w).ends = "timeout" -> "timeout"
    [] Body(w).ends = "reset" -> "network"
    [] OTHER -> "none"

\* A read at the end of what the server sent, and every later one.
ReadError(w) ==
  CASE Body(w).ends = "timeout" -> "timeout"
    [] Body(w).ends = "eof" -> "none"
    [] OTHER -> "network"

\* io.ReadFull: its ErrUnexpectedEOF and that of the body are not told apart;
\* the copy behind meets the body's again.
ReadHead(w) ==
  LET hn == Min({SniffBytes, Body(w).sends})
      cut == Body(w).sends < SniffBytes /\ Body(w).ends \in {"timeout", "reset"}
  IN  IF cut THEN Ends(w, ReadError(w), hn, hn)
      ELSE IF hn = 0 THEN Ends(w, "type", 0, 0)
      ELSE IF Body(w).magic \in {"none", "image/svg+xml"}
           THEN [fetch[w] EXCEPT !.at = "svg", !.pos = hn, !.n = hn]
      ELSE [fetch[w] EXCEPT !.at = "tail", !.pos = hn, !.n = hn, !.det = Body(w).magic]

\* svgRootCheck: the decoder reads on until the root element is complete, and
\* possibly further; what it reads is not counted.
SvgRootCheck(w) ==
  LET f == fetch[w]
      last == Min({Body(w).sends, SVGPrologBytes + 1})
  IN  IF Body(w).magic = "none" \/ Body(w).root > last
      THEN {Ends(w, "type", p, f.n) : p \in f.pos..Max({f.pos, last})}
      ELSE {[f EXCEPT !.at = "tail", !.pos = p, !.det = "image/svg+xml"] :
              p \in IF Body(w).root <= f.pos THEN {f.pos}
                    ELSE Body(w).root..last}

\* crossCheckContentType
Conflicts(type, det) == type \notin {"", "application/octet-stream", det}

\* Mutant: the cap has no headroom.
ReadTailAtCap(w, refused) ==
  LET f == fetch[w]
      pos == Min({Body(w).sends, MaxImageBytes})
      n == f.n + (pos - f.pos)
      error == ReadError(w)
  IN  CASE pos = MaxImageBytes -> Ends(w, "too-large", pos, n)
        [] pos < MaxImageBytes /\ error # "none" -> Ends(w, error, pos, n)
        [] OTHER -> Ends(w, "none", pos, n)

\* The copy, the cap on what was counted, the declared length and type.
\* capReader lets one unit beyond the cap through; refused says that it was
\* asked for more, which a body of one unit too many avoids when its end
\* shows with its last bytes.
ReadTail(w, refused) ==
  LET f == fetch[w]
      pos == Min({Body(w).sends, MaxImageBytes + 1})
      n == f.n + (pos - f.pos)
      error == ReadError(w)
  IN  IF refused THEN Ends(w, "too-large", pos, n)
      ELSE IF error # "none" THEN Ends(w, error, pos, n)
      ELSE IF n > MaxImageBytes THEN Ends(w, "too-large", pos, n)
      ELSE IF f.resp.length > 0 /\ n < f.resp.length
           THEN Ends(w, "truncated", pos, n)
      ELSE IF Conflicts(f.resp.type, f.det) THEN Ends(w, "type", pos, n)
      ELSE Ends(w, "none", pos, n)

Consume(w) ==
  /\ \/ fetch[w].at = "head" /\ fetch' = [fetch EXCEPT ![w] = ReadHead(w)]
     \/ fetch[w].at = "svg" /\ \E f \in SvgRootCheck(w) : fetch' = [fetch EXCEPT ![w] = f]
     \/ /\ fetch[w].at = "tail"
        /\ \/ /\ Body(w).sends <= MaxImageBytes + 1
              /\ fetch' = [fetch EXCEPT ![w] = ReadTail(w, FALSE)]
           \/ /\ Body(w).sends > MaxImageBytes
              /\ fetch' = [fetch EXCEPT ![w] = ReadTail(w, TRUE)]
  /\ UNCHANGED <<transport, idle>>

\* The sink refuses a write: the copy ends with its error.
SinkFails(w) ==
  /\ fetch[w].at \in {"head", "svg", "tail"}
  /\ fetch' = [fetch EXCEPT ![w].at = "close", ![w].err = "storage"]
  /\ UNCHANGED <<transport, idle>>

\* uploadItem closes the body; a storage failure within the budget gets the
\* address again, from zero.
Close(w) ==
  /\ fetch[w].at = "close"
  /\ Closed(w, IF fetch[w].err = "storage" THEN -1 ELSE fetch[w].pos)
  /\ \/ Fails(w, fetch[w].err)
     \/ /\ fetch[w].err = "storage"
        /\ fetch' = [fetch EXCEPT ![w] =
                        [NoFetch EXCEPT !.at = "transport", !.item = fetch[w].item,
                                        !.url = fetch[w].item]]
  /\ UNCHANGED transport

EndFetch(w) ==
  /\ fetch[w].at = "ended"
  /\ fetch' = [fetch EXCEPT ![w] = NoFetch]
  /\ UNCHANGED <<transport, idle>>

\* IdleConnTimeout, or the server closes.
Drop == /\ \E c \in idle : idle' = idle \ {c}
        /\ UNCHANGED <<transport, fetch>>

-----------------------------------------------------------------------------
Init == /\ transport = NoTransport /\ idle = {}
        /\ fetch = [w \in Workers |-> NoFetch]

Next == \/ \E w \in Workers :
             \/ \E u \in Items[w] : StartGet(w, u)
             \/ ReadTransport(w) \/ BuildTransport(w)
             \/ Reuse(w) \/ Resolve(w) \/ Dial(w)
             \/ NoReply(w) \/ \E r \in Responses[w] : Reply(w, r)
             \/ Classify(w) \/ Consume(w) \/ SinkFails(w)
             \/ Close(w) \/ EndFetch(w)
        \/ Drop

Spec == Init /\ [][Next]_vars

-----------------------------------------------------------------------------
(* A request is sent only to an address that passed the policy, at most    *)
(* MaxRedirects hops away, over a connection that was made for its host to *)
(* one of a list of addresses that were all public, whoever made it        *)
(* (client.go, Get and dialTLS).                                           *)
RequestsInPolicy ==
  [][\A w \in Workers : fetch'[w].at = "sent" /\ fetch[w].at # "sent" =>
       LET u == fetch[w].url
           conn == fetch'[w].conn
       IN  /\ ValidateURL(u) = "none"
           /\ fetch[w].hop <= MaxRedirects
           /\ conn.host = u.host
           /\ \E ips \in Answers[conn.host.name] :
                conn.ip \in ToSet(ips) /\ ToSet(ips) \subseteq Public]_vars

\* The root element of an SVG ends behind the head: ConsumeBody counts less
\* than it reads.
LongProlog(w) == Body(w).magic = "image/svg+xml" /\ Body(w).root > SniffBytes

(* An image is accepted only when the sink has all of it: the server came  *)
(* to a clean end, sent what it declared, and the type it declared is that *)
(* of the bytes; and it is within the cap, but for an SVG with a long      *)
(* prolog, which may be one unit beyond it (image.go, ConsumeBody: the cap *)
(* is compared with the count).                                            *)
AcceptedWhole ==
  \A w \in Workers : fetch[w].at = "close" /\ fetch[w].err = "none" =>
    /\ Body(w).ends = "eof" /\ fetch[w].pos = Body(w).sends
    /\ \/ fetch[w].pos <= MaxImageBytes
       \/ LongProlog(w) /\ fetch[w].pos = MaxImageBytes + 1
    /\ fetch[w].resp.length <= fetch[w].pos
    /\ fetch[w].det = Body(w).magic
    /\ ~Conflicts(fetch[w].resp.type, Body(w).magic)

(* An image is refused for a reason that is true of it, at the cap and at  *)
(* the ends of the head and the prolog, and counted as it is stored;       *)
(* except for an SVG with a long prolog, whose count falls short and which *)
(* is taken for truncated when its length was declared; nothing else is    *)
(* (image.go, ConsumeBody, svgRootCheck and capReader).                    *)
RefusalsAreTrue ==
  \A w \in Workers : fetch[w].at = "close" =>
    LET err == fetch[w].err
        body == Body(w)
    IN  /\ err = "too-large" => body.sends > MaxImageBytes
        /\ err \in {"network", "timeout"} => body.ends # "eof"
        /\ err = "truncated" => LongProlog(w)
        /\ err = "type" => \/ body.sends = 0
                           \/ body.magic = "none"
                           \/ Conflicts(fetch[w].resp.type, body.magic)
                           \/ /\ body.magic = "image/svg+xml"
                              /\ body.root > Min({body.sends, SVGPrologBytes + 1})
        /\ err = "none" => fetch[w].n = fetch[w].pos \/ LongProlog(w)

(* What ConsumeBody returns for an accepted image is the number of bytes   *)
(* that the sink has (image.go: "returns the byte count").                 *)
CountsWhatItStores ==
  \A w \in Workers : fetch[w].at = "close" /\ fetch[w].err = "none" =>
    fetch[w].n = fetch[w].pos
=============================================================================
