SPECIFICATION Spec
CONSTANTS
    w1 = w1
    w2 = w2
    zones = zones
    networks = networks
    Worker <- MCWorker
    Url <- MCUrl
    MaxVersion <- MCMaxVersion
    RetryMax = 1
INVARIANT SubsequentReadsSeeFreshData
SYMMETRY Symmetry
