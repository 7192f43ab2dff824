SPECIFICATION FairSpec
CONSTANTS
    skin = skin
    vbat = vbat
    Sensors = {skin, vbat}
    Config <- MCConfig
    Temps = {3, 4, 5, 9}
    Garbage = {0}
    Callbacks = {c1, c2}
    Binders = {"binder"}
INVARIANTS ToldCurrent ArmedForStatus
PROPERTIES NoFlapping CallsReturn
