------------------------- MODULE PodResourcesClient -------------------------
(***************************************************************************)
(* From a path to the socket the locator dials (pkg/podresources/          *)
(* client.go). The text of an endpoint is what its reading depends on: a   *)
(* scheme ("" for none), the number of slashes after it, and the segments. *)
(* Segments are plain names (no "." or "..").                              *)
(***************************************************************************)
EXTENDS Integers, Sequences

unixProtocol == "unix"

Text(scheme, slashes, segs) ==
    [scheme |-> scheme, slashes |-> slashes, segs |-> segs]

(***************************************************************************)
(* url.Parse: what follows two slashes is a host, what follows one, or     *)
(* three, an absolute path. A scheme and no slash leaves no path at all.   *)
(***************************************************************************)
HostOf(t) ==
    IF t.slashes = 2 /\ t.segs # <<>> THEN <<Head(t.segs)>> ELSE <<>>

PathOf(t) ==
    IF t.slashes = 2 /\ t.segs # <<>> THEN Tail(t.segs)
    ELSE IF t.slashes = 0 /\ t.scheme # "" THEN <<>>
    ELSE t.segs

(***************************************************************************)
(* url.URL.String writes "unix://" and the path, and filepath.Join, which  *)
(* cleans what it joins, leaves one of the three slashes.                  *)
(***************************************************************************)
Clean(t) == [t EXCEPT !.slashes = IF @ > 0 THEN 1 ELSE 0]

\* Variant: the path is put behind "unix://" without its first slash, and
\* nothing is cleaned.
LocalEndpointRaw(path, file) == Text(unixProtocol, 2, Append(path, file))

LocalEndpoint(path, file) == Clean(Text(unixProtocol, 3, Append(path, file)))

ParseEndpoint(t) ==
    CASE t.scheme = "tcp"        -> [protocol |-> "tcp", addr |-> HostOf(t), ok |-> TRUE]
      [] t.scheme = unixProtocol -> [protocol |-> unixProtocol, addr |-> PathOf(t), ok |-> TRUE]
      [] OTHER                   -> [protocol |-> t.scheme, addr |-> <<>>, ok |-> FALSE]

(***************************************************************************)
(* An endpoint without a scheme is read again behind "unix://".            *)
(***************************************************************************)
ParseEndpointWithFallbackProtocol(t, fallback) ==
    LET r == ParseEndpoint(t)
    IN  IF ~r.ok /\ r.protocol = ""
        THEN ParseEndpoint(Text(fallback, 2 + t.slashes, t.segs))
        ELSE r

(***************************************************************************)
(* GetAddressAndDialer and GetClient. The dialling does not block, so only *)
(* the endpoint can be wrong here.                                         *)
(***************************************************************************)
GetClient(t) ==
    LET r == ParseEndpointWithFallbackProtocol(t, unixProtocol)
    IN  [ok |-> r.ok /\ r.protocol = unixProtocol, addr |-> r.addr]
=============================================================================
