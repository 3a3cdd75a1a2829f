SPECIFICATION FairSpec
CONSTANTS
    e1 = e1
    e2 = e2
    e3 = e3
    k1 = k1
    k2 = k2
    k3 = k3
    k4 = k4
    t1 = t1
    t2 = t2
    dns = dns
    ip = ip
    odd = odd
    f1 = f1
    f2 = f2
    status = status
    EncKeys <- Enc
    TlsKeys <- Tls
    Tokens <- Toks
    None = None
    Empty = Empty
    DnsHosts = {dns}
    IpHosts = {ip}
    PlainHosts = {odd}
    Confs <- Containers
    Alters = {2, 3}
    Latest = 3
    MaxEvents = 2
    Forms = {f1, f2}
    Asking = status
INVARIANTS
    TypeOK
    PairInOrder
    TokenReadable
    CacheAgrees
    RateCurrent
PROPERTIES
    CertStable
    StartGoesThrough
    UpAgain
CHECK_DEADLOCK FALSE
