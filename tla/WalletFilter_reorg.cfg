CONSTANTS
    cn1 = cn1
    cn2 = cn2
    MyPh = MyPh
    OtherPh = OtherPh
    Unspent = Unspent
    Coins <- MCCoins
    MaxHeight <- MCMaxHeight
SPECIFICATION Spec
INVARIANT FindsOwnSpends
