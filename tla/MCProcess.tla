----------------------------- MODULE MCProcess ------------------------------
(* Instance of Process for TLC. *)
EXTENDS Process

CONSTANTS e1, e2, e3, k1, k2, k3, k4, t1, t2, dns, ip, odd, f1, f2, status

Enc  == {e1, e2, e3}
Tls  == {k1, k2, k3, k4}
Toks == {t1, t2}

Given(h, k, tls) == [host |-> h, key |-> k, tls |-> tls]

(* Each kind of hostname, a key from the environment, and no TLS. *)
Containers == {Given(dns, None, TRUE), Given(odd, e1, TRUE), Given(ip, None, TRUE),
               Given(dns, None, FALSE)}

=============================================================================
