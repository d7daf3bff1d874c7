SPECIFICATION FairSpec
CONSTANTS
    w1 = w1
    w2 = w2
    t1 = t1
    t2 = t2
    Works = {w1}
    Nomad = {w1}
    Tearers = {t1, t2}
    Mortal = {t2}
INVARIANT CertifiedZero
PROPERTY CancelConverges
