SPECIFICATION Spec
CONSTANTS
    NX = 2
    NSlices = 2
    MaxStep = 1
    MaxIter = 2
    MaxMove = 1
    MaxLost = 1
    Configs <- PlasmaConfigs
INVARIANTS ElectronsOfIons StaysInDomain
PROPERTIES IonizationKeepsCharge StepStartsAlike LostStaysLost
