CONSTANTS
    ann = ann
    bob = bob
    eve = eve
    Wrong = Wrong
    None = None
    Client = {ann, bob, eve}
    Ask <- MCAsk
    Version = {1, 2, 3, 4, 5}
    Content <- MCContent
    Port = {1, 2}
    MaxClients = 1
    Layers <- MCLayers
    ClientLayers <- MCClientLayers
SPECIFICATION FairSpec
INVARIANTS TopLayerDecides
PROPERTIES JudgedByFile GetsIn
