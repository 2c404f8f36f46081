CONSTANT MaxHosts <- MCMaxHosts
SPECIFICATION PoolSpec
INVARIANT FreeAddressFound
