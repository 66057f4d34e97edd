CONSTANTS
    Senders = {s1, s2}
    Creators = {c1, c2}
    Ips = {i1, i2, i3}
    Account = account
    AccountSecond = 2
    AccountMinute = 3
    IpSecond = 1
    IpMinute = 2
    SecondDuration = 1
    MinuteDuration = 3
    MaxCapacity = 1
    MaxTime = 3
SPECIFICATION Spec
SYMMETRY Symmetry
INVARIANTS
    TypeOK
    ReturnFits
    AccountRate
    IpRate
    CapacityOvershoot
