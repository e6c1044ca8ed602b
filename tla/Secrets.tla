------------------------------ MODULE Secrets -------------------------------
(***************************************************************************)
(* The key pairs and certificates the manager makes for every run            *)
(* (docker_utils.py, cert_utils.py), in a directory all containers mount,    *)
(* and what a node reads of it when it starts and when it dials              *)
(* (key_store.py, quic_server.py).  A private key is the run it was made in  *)
(* and its owner; of a certificate its name, its key and its issuer's key    *)
(* are kept.                                                                 *)
(***************************************************************************)
EXTENDS Integers, TLC

\* f, and g where f is not defined.
Over(f, g) ==
    [x \in DOMAIN f \cup DOMAIN g |-> IF x \in DOMAIN f THEN f[x] ELSE g[x]]

Public(key) == [public_of |-> key]

Certificate(name, key, issuer) ==
    [common_name |-> name, key |-> Public(key), signed_by |-> issuer]

\* _generate_node_cert
generate_node_cert(i, run, ca_key) ==
    [cert |-> Certificate(<<"node", i>>, <<run, "tls", i>>, ca_key),
     key |-> <<run, "tls", i>>]

\* Mutant: a certificate that is there is kept.
generate_certificates_once(n, run, old) ==
    LET ca_key == <<run, "tls", "ca">>
    IN  [ca |-> Certificate(<<"ca">>, ca_key, ca_key),
         nodes |-> Over(old, [i \in 0..n - 1 |-> generate_node_cert(i, run, ca_key)])]

\* generate_certificates: files of earlier runs with more nodes stay.
generate_certificates(n, run, old) ==
    LET ca_key == <<run, "tls", "ca">>
    IN  [ca |-> Certificate(<<"ca">>, ca_key, ca_key),
         nodes |-> Over([i \in 0..n - 1 |-> generate_node_cert(i, run, ca_key)], old)]

\* generate_keys
generate_keys(n, run, old) ==
    [pki_priv |-> [i \in 0..n - 1 |-> <<run, "sphinx", i>>],
     pki_pub |-> [i \in 0..n - 1 |-> Public(<<run, "sphinx", i>>)],
     certs |-> generate_certificates(n, run, old.certs.nodes)]

NoSecrets == [pki_priv |-> <<>>, pki_pub |-> <<>>,
              certs |-> [ca |-> Certificate(<<"ca">>, <<>>, <<>>), nodes |-> <<>>]]

\* KeyStore.load_keys and _load_certificates of node i when it starts: the public
\* keys of all, its own private one, and the certificate it answers dials with.
Loaded(secrets, i) ==
    [x |-> secrets.pki_priv[i], y |-> secrets.pki_pub, chain |-> secrets.certs.nodes[i]]

\* What _connect_peer of node i reads for every dial: its certificate and the
\* authority, as they are then.
ReadToDial(secrets, i) == [chain |-> secrets.certs.nodes[i], ca |-> secrets.certs.ca]

\* A dial of this peer succeeds if the certificate it is answered with has the
\* peer's name and a signature of the dialer's authority.  The answering side
\* asks for a certificate, too, but does not check who signed it.  Each must own
\* the key of its certificate.
Handshake(dialer, peer, acceptor) ==
    /\ dialer.chain.cert.key = Public(dialer.chain.key)
    /\ acceptor.chain.cert.key = Public(acceptor.chain.key)
    /\ acceptor.chain.cert.common_name = <<"node", peer>>
    /\ Public(acceptor.chain.cert.signed_by) = dialer.ca.key

\* _extract_peer_id, by which the answering side registers the dialer: node_5 is
\* node 5.
extract_peer_id(dialer) ==
    LET name == dialer.chain.cert.common_name
    IN  IF name[1] = "node" THEN name[2] ELSE -1

\* A layer of a packet made with the public key y is taken off with x.
Opens(x, y) == y = Public(x)
=============================================================================
